---- MODULE Spec2Model ----
(***************************************************************************)
(* MongoDB Cloner A -> B: the copy engine (clone/runner.ts), the CLI       *)
(* orchestration (index.ts) and the conflict prompts (cli/prompts.ts) as a *)
(* state machine.  Every await of the code is one step of the machine.     *)
(*                                                                         *)
(* A document is identified with its _id and a body tag: "src" for a       *)
(* document of the source deployment, "old" for a document the destination *)
(* held before the run.  _id values are integers ordered as the database   *)
(* orders them; NullId stands for the value null, which sorts first.       *)
(***************************************************************************)
EXTENDS Integers, Sequences, FiniteSets, TLC

(* ------------------------------ bounds -------------------------------- *)

\* Largest non-null _id of the model.
MaxKey == 2

\* Largest page size insertBatch and cloneCollection are started with; the
\* code's PAGE_SIZE, 10, is the parameter pageSize of the model.  The runs of
\* cloneDatabases and runCli use pages of one document.
MaxPageSize == 2

\* Faults the environment raises in one run of cloneDatabases or runCli.
MaxFaults == 2

\* Largest _id of the records of the collection the Xronox migration works
\* on; 0 stands for an _id that is falsy (0, "", false, null).
MaxId == 2

(* ----------------------- constants of the code ------------------------ *)

MAX_RETRIES == 7

\* `let lastId: unknown = undefined`: no page has been read yet.
Undefined == -1

\* An _id of null: `page[page.length - 1]._id ?? lastId` treats it as absent.
NullId == 0

Keys == NullId .. MaxKey

Doc(k) == [_id |-> k, body |-> "src"]

Old(k) == [_id |-> k, body |-> "old"]

AllDocs == {Doc(k) : k \in Keys} \cup {Old(k) : k \in Keys}

Ids(S) == {d._id : d \in S}

\* A collection holds at most one document per _id (the unique _id index).
UniqueIds(S) == \A d, e \in S : d._id = e._id => d = e

Range(s) == {s[i] : i \in 1 .. Len(s)}

Min(a, b) == IF a <= b THEN a ELSE b

(* ------------------------------ errors -------------------------------- *)

\* What a driver call can throw: the class of the error, its message, and
\* what the fault was (kind: a transient network fault, or anything else).
\* The code sees the class and the message only.
DuplicateKey == [class |-> "MongoServerError",
                 message |-> "E11000 duplicate key error", kind |-> "other"]

\* The error of a read or of an administrative call that fails.
NetworkFault == [class |-> "MongoNetworkError",
                 message |-> "connection 3 to host closed",
                 kind |-> "network"]

Errors ==
  { NetworkFault,
    [class |-> "Error", message |-> "write EPIPE", kind |-> "network"],
    [class |-> "MongoServerError", message |-> "not authorized",
     kind |-> "other"],
    DuplicateKey }

NoError == [class |-> "none", message |-> "", kind |-> "none"]

\* Whether /(EPIPE|ETIMEDOUT|ECONNRESET|Connection closed|Socket Closed)/i
\* matches the message.  "connection 3 to host closed" does not hold the
\* words "connection closed" next to each other.
SignatureMatches(message) ==
  message \in {"write EPIPE", "read ETIMEDOUT", "read ECONNRESET",
               "connection closed", "Socket Closed"}

isNetworkError(e) ==
  e.class = "MongoNetworkError" \/ SignatureMatches(e.message)

(* --------------------------- pure helpers ----------------------------- *)

\* For comparison: a delay that grows with attempt, not with its square.
DelayLinear(k) == Min(20000, 500 * k)

\* `Math.min(20_000, 500 * attempt * attempt)`
Delay(k) == Min(20000, 500 * k * k)

MinDoc(S) == CHOOSE d \in S : \A e \in S : d._id <= e._id

RECURSIVE SortById(_)
\* `.sort({ _id: 1 })`
SortById(S) ==
  IF S = {} THEN <<>>
  ELSE LET m == MinDoc(S) IN <<m>> \o SortById(S \ {m})

\* `.limit(n)`
Limit(s, n) == SubSeq(s, 1, Min(n, Len(s)))

\* `lastId === undefined ? {} : { _id: { $gt: lastId } }`
Filter(S, last) == {d \in S : last = Undefined \/ d._id > last}

\* `find(filter).sort({ _id: 1 }).limit(PAGE_SIZE).toArray()`
FindPage(S, last, n) == Limit(SortById(Filter(S, last)), n)

\* `lastId = page[page.length - 1]._id ?? lastId`
NextLastId(p, last) ==
  IF p[Len(p)]._id = NullId THEN last ELSE p[Len(p)]._id

(* ------------------------------- state -------------------------------- *)

VARIABLES
  pc,            \* the await the run is at
  entry,         \* the function the run was started at
  error,         \* the error in flight once one was thrown, else NoError
  pageSize,      \* PAGE_SIZE
  faultsLeft,    \* faults the environment may still raise (-1: any number)
  source,        \* the source deployment: database -> collection -> record
  dest,          \* the destination deployment
  conn,          \* runCli: `source` and `destination`, the two clients
  options,       \* runCli: options.skipIndexes, "undefined" when not given
  skipIndexes,   \* cloneDatabases: the parameter skipIndexes
  selectedDatabases,    \* runCli
  conflictingDatabases, \* runCli
  conflictIdx,   \* promptConflictResolution: position of dbName in the loop
  resolution,    \* promptConflictResolution: overwrite, skip, cancelled
  overwrite,     \* runCli: `let overwrite`
  skip,          \* runCli: `let skip`
  lastDecision,  \* runCli
  databases,     \* cloneDatabases: the parameter
  overwriteArg,  \* cloneDatabases: the parameter `overwrite`
  dbIdx,         \* cloneDatabases: position of dbName in databases
  dbName,        \* cloneDatabases: the database being cloned
  sourceCollections,          \* cloneDatabases
  destinationCollectionNames, \* cloneDatabases
  collIdx,       \* cloneDatabases: position in sourceCollections
  collectionName,\* cloneDatabases: the collection being cloned
  indexes,       \* syncIndexes: `const indexes`
  indexIdx,      \* syncIndexes: position of `index` in indexes
  totalDocs,     \* cloneCollection
  processedDocs, \* cloneCollection
  lastId,        \* cloneCollection
  page,          \* cloneCollection
  documents,     \* insertBatch, insertIndividually: the parameter
  attempt,       \* insertBatch: the parameter (the recursion depth)
  docIdx,        \* insertIndividually: position of `doc` in documents
  docAttempt,    \* insertIndividually: `let attempt`
  dest0,         \* history: the destination deployment when the run began
  asked,         \* history: the databases a conflict decision was asked for
  destOps,       \* history: the kinds of writes sent to the destination
  calls,         \* history: the driver calls made on databases and collections
  handed,        \* history: the documents cloneCollection gave insertBatch
  bulkLog,       \* history: the insertMany calls for the current batch
  singleLog,     \* history: the insertOne calls for the current batch
  batchDelays,   \* history: the delays slept in insertBatch, current batch
  docDelays,     \* history: the delays slept for the current document
  faulty,        \* history: the environment raised a fault in this run
  args,          \* bin main: process.argv.slice(2), as a set of flags
  resume,        \* migrateDocument: the parameter resume
  validate,      \* migrateCollection: options.validate
  sameDeployment,\* the router sends the collection to the source deployment
  sourceColl,    \* the source collection: _id -> document
  heads,         \* <collection>_head of the target database: _id -> document
  base,          \* <collection> of the target database: _id -> document
  storage,       \* the bucket: key -> object
  counter,       \* the change-version counter Repos.incCv increments
  uuids,         \* the number of identifiers randomUUID has produced
  total,         \* migrateCollection: total
  migrated,      \* migrateCollection: migrated
  records,       \* migrateCollection: what the cursor will give, in order
  cursor,        \* the number of documents the cursor has given
  record,        \* migrateDocument: record; validateCollection: doc
  result,        \* what migrateDocument returned: "null", "idHex" or ""
  payload,       \* migrateDocument: payload
  headDoc,       \* migrateDocument: headDoc
  validated,     \* validateCollection: validated
  failures,      \* validateCollection: failures
  report,        \* validateCollection: its last line on the console
  xlog           \* history: the calls made on heads, base, counter, bucket

envVars   == <<source, dest>>
cliVars   == <<conn, options, skipIndexes, selectedDatabases, conflictingDatabases,
               conflictIdx, resolution, overwrite, skip, lastDecision>>
dbVars    == <<databases, overwriteArg, dbIdx, dbName, sourceCollections,
               destinationCollectionNames, collIdx, collectionName>>
indexVars == <<indexes, indexIdx>>
placeVars == <<cliVars, dbVars, indexVars, dest0, asked>>
collVars  == <<totalDocs, processedDocs, lastId, page>>
batchVars == <<documents, attempt, docIdx, docAttempt>>
batchHist == <<handed, bulkLog, singleLog, batchDelays, docDelays>>
histVars  == <<batchHist, calls>>
faultVars == <<faultsLeft, faulty>>
targetVars == <<sourceColl, heads, base, storage, counter>>
migrateVars == <<total, migrated, records, cursor, record, result, payload,
                 headDoc, uuids>>
validateVars == <<validated, failures, report>>
xVars == <<args, resume, validate, sameDeployment, targetVars, migrateVars,
           validateVars, xlog>>
vars == <<pc, entry, error, pageSize, envVars, placeVars, destOps, collVars,
          batchVars, histVars, faultVars, xVars>>

\* The databases of the model, in the order listDatabases gives them.
DbOrder == <<"db1", "db2">>

DbNames == Range(DbOrder)

\* The collections of the model, in the order listCollections gives them.
CollOrder == <<"c1", "c2">>

CollNames == Range(CollOrder)

NoColl == [exists |-> FALSE, docs |-> {}, indexes |-> {}]

\* A deployment that holds nothing.
Nothing == [d \in DbNames |-> [c \in CollNames |-> NoColl]]

\* A deployment that holds one collection.
Only(d, c, coll) == [Nothing EXCEPT ![d][c] = coll]

\* A database exists when it holds a collection.
DbExists(world, d) == \E c \in CollNames : world[d][c].exists

\* The sequences without repetition of elements of S.
SeqsNoDup(S) ==
  {q \in UNION {[1 .. n -> S] : n \in 0 .. Cardinality(S)} :
     \A i, j \in 1 .. Len(q) : i # j => q[i] # q[j]}

\* promptConflictResolution: `const overwrite = []; const skip = []`.
NoResolution == [overwrite |-> <<>>, skip |-> <<>>, cancelled |-> FALSE]

\* The destination collection insertBatch writes to.
DestDocs == dest[dbName][collectionName].docs

\* Documents of ds the unique _id index refuses.
Dups(ds) == {d \in ds : d._id \in Ids(DestDocs)}

\* The destination after the documents of S were written: an insert into a
\* collection that does not exist creates it, with its _id index.
Inserted(S) ==
  [dest EXCEPT ![dbName][collectionName] =
     [exists |-> TRUE, docs |-> @.docs \cup S,
      indexes |-> @.indexes \cup {"_id_"}]]

\* Where the run goes when insertBatch returns.
AfterInsertBatch ==
  IF entry = "insertBatch" THEN "done" ELSE "afterInsertBatch"

\* For comparison: an error that is swallowed, the loop going on.
ThrownIsSwallowed == "nextCollection"

\* Where the run goes when an error is thrown: nothing below runCli catches
\* it, runCli's catch logs it and the finally block follows.
Thrown == IF entry = "runCli" THEN "finally" ELSE "thrown"

\* A call of the driver on a collection of the database being cloned (coll
\* is "" for a call on the database itself), with its argument where the
\* claims need it and whether it resolved.
Call(op, coll, arg, ok) ==
  [op |-> op, db |-> dbName, coll |-> coll, arg |-> arg, ok |-> ok]

\* The call is made: it is the next of the history.
Logged(op, coll, arg, ok) == calls' = Append(calls, Call(op, coll, arg, ok))

\* An insert is sent: the history notes it once for the inserts of the same
\* kind that follow each other, whose outcomes bulkLog and singleLog hold.
LoggedInsert(op) ==
  LET call == Call(op, collectionName, "", TRUE) IN
    calls' = IF calls # <<>> /\ calls[Len(calls)] = call
             THEN calls ELSE Append(calls, call)

\* The environment may raise one more fault.
MayFault == faultsLeft # 0

FaultRaised ==
  /\ faultsLeft' = IF faultsLeft > 0 THEN faultsLeft - 1 ELSE faultsLeft
  /\ faulty' = TRUE

(* --------------------------- insertBatch ------------------------------ *)

\* `await destinationCollection.insertMany(documents, {ordered: false})`
\* resolves: no document was refused, all are written.
InsertManyOk ==
  /\ pc = "insertMany"
  /\ Dups(Range(documents)) = {}
  /\ dest' = Inserted(Range(documents))
  /\ bulkLog' = Append(bulkLog, [sent |-> documents, outcome |-> "ok"])
  /\ pc' = AfterInsertBatch
  /\ destOps' = destOps \cup {"insert"}
  /\ LoggedInsert("insertMany")
  /\ UNCHANGED <<xVars, entry, error, pageSize, source, placeVars, collVars,
                 batchVars, handed, singleLog, batchDelays, docDelays,
                 faultVars>>

\* For comparison: a fallback one attempt later.
FallbackOffByOne(e, k) == ~isNetworkError(e) \/ k > MAX_RETRIES

\* For comparison: a fallback that ignores the kind of the error.
FallbackAtCeilingOnly(e, k) == k >= MAX_RETRIES

\* `if (!isNetworkError || attempt >= MAX_RETRIES)`
Fallback(e, k) == ~isNetworkError(e) \/ k >= MAX_RETRIES

\* The catch of insertBatch: fall back to insertIndividually, or sleep
\* `delay` and go on to the ping.
InsertBatchCatch(e) ==
  /\ bulkLog' = Append(bulkLog, [sent |-> documents, outcome |-> e.kind])
  /\ IF Fallback(e, attempt)
     THEN /\ pc' = "insertOne"
          /\ docIdx' = 1
          /\ docAttempt' = 1
          /\ docDelays' = <<>>
          /\ UNCHANGED batchDelays
     ELSE /\ pc' = "ping"
          /\ batchDelays' = Append(batchDelays, Delay(attempt))
          /\ UNCHANGED <<docIdx, docAttempt, docDelays>>

\* insertMany rejects with a duplicate key error: with ordered: false every
\* document the index does not refuse is written.
InsertManyDuplicate ==
  /\ pc = "insertMany"
  /\ Dups(Range(documents)) # {}
  /\ LET fresh == Range(documents) \ Dups(Range(documents)) IN
       dest' = IF fresh = {} THEN dest ELSE Inserted(fresh)
  /\ InsertBatchCatch(DuplicateKey)
  /\ destOps' = destOps \cup {"insert"}
  /\ LoggedInsert("insertMany")
  /\ UNCHANGED <<xVars, entry, error, pageSize, source, placeVars, collVars,
                 documents, attempt, handed, singleLog, faultVars>>

\* insertMany rejects because of a fault: any part of the batch the index
\* does not refuse may have been written before the error was reported.
InsertManyFault ==
  /\ pc = "insertMany"
  /\ MayFault
  /\ \E e \in Errors \ {DuplicateKey},
        applied \in SUBSET (Range(documents) \ Dups(Range(documents))) :
       /\ dest' = IF applied = {} THEN dest ELSE Inserted(applied)
       /\ InsertBatchCatch(e)
  /\ FaultRaised
  /\ destOps' = destOps \cup {"insert"}
  /\ LoggedInsert("insertMany")
  /\ UNCHANGED <<xVars, entry, error, pageSize, source, placeVars, collVars,
                 documents, attempt, handed, singleLog>>

\* For comparison: an insertBatch that returns after the ping and does not
\* send the batch again.
PingThenReturn ==
  /\ pc = "ping"
  /\ pc' = AfterInsertBatch
  /\ UNCHANGED <<xVars, entry, error, pageSize, envVars, placeVars, destOps, collVars,
                 batchVars, histVars, faultVars>>

\* `await destinationCollection.db.command({ ping: 1 })` in its own try,
\* then `await insertBatch(destinationCollection, documents, attempt + 1)`.
\* The ping resolves or rejects; either way the code goes on.
PingThenRetry ==
  /\ pc = "ping"
  /\ pc' = "insertMany"
  /\ attempt' = attempt + 1
  /\ documents' = documents
  /\ UNCHANGED <<xVars, entry, error, pageSize, envVars, placeVars, destOps, collVars,
                 docIdx, docAttempt, histVars, faultVars>>

\* For comparison: a ping whose failure is thrown.
PingFaultThrows ==
  /\ pc = "ping"
  /\ MayFault
  /\ FaultRaised
  /\ error' = NetworkFault
  /\ pc' = Thrown
  /\ Logged("ping", collectionName, "", FALSE)
  /\ UNCHANGED <<xVars, entry, pageSize, envVars, placeVars, destOps,
                 collVars, batchVars, batchHist>>

\* `await destinationCollection.db.command({ ping: 1 })` rejects:
\* `catch (pingError) { console.warn(...) }`, then the same
\* `await insertBatch(destinationCollection, documents, attempt + 1)`.
PingFault ==
  /\ pc = "ping"
  /\ MayFault
  /\ FaultRaised
  /\ Logged("ping", collectionName, "", FALSE)
  /\ pc' = "insertMany"
  /\ attempt' = attempt + 1
  /\ UNCHANGED <<xVars, entry, error, pageSize, envVars, placeVars, destOps,
                 collVars, documents, docIdx, docAttempt, batchHist>>

(* ------------------------ insertIndividually -------------------------- *)

\* The document of the for loop.
CurrentDoc == documents[docIdx]

\* `break`, then the next document of the for loop, or the return of
\* insertIndividually and of insertBatch.
NextDocument ==
  IF docIdx = Len(documents)
  THEN /\ pc' = AfterInsertBatch
       /\ UNCHANGED <<docIdx, docAttempt, docDelays>>
  ELSE /\ pc' = "insertOne"
       /\ docIdx' = docIdx + 1
       /\ docAttempt' = 1
       /\ docDelays' = <<>>

\* `await destinationCollection.insertOne(doc, ...)` resolves.
InsertOneOk ==
  /\ pc = "insertOne"
  /\ Dups({CurrentDoc}) = {}
  /\ dest' = Inserted({CurrentDoc})
  /\ singleLog' = Append(singleLog, [doc |-> docIdx, outcome |-> "ok"])
  /\ NextDocument
  /\ destOps' = destOps \cup {"insert"}
  /\ LoggedInsert("insertOne")
  /\ UNCHANGED <<xVars, entry, error, pageSize, source, placeVars, collVars,
                 documents, attempt, handed, bulkLog, batchDelays,
                 faultVars>>

\* For comparison: a fallback that drops the document that failed.
SwallowAndGoOn(e) ==
  /\ NextDocument
  /\ UNCHANGED error

\* For comparison: a catch that tries the document again after any error
\* until MAX_RETRIES attempts were made.
InsertOneCatchRetriesAll(e) ==
  IF docAttempt >= MAX_RETRIES
  THEN /\ pc' = Thrown
       /\ error' = e
       /\ UNCHANGED <<docIdx, docAttempt, docDelays>>
  ELSE /\ pc' = "insertOne"
       /\ docDelays' = Append(docDelays, Delay(docAttempt))
       /\ docAttempt' = docAttempt + 1
       /\ UNCHANGED <<docIdx, error>>

\* The catch of insertIndividually: `throw error`, or sleep `delay` and
\* try the same document again.
InsertOneCatch(e) ==
  IF ~isNetworkError(e) \/ docAttempt >= MAX_RETRIES
  THEN /\ pc' = Thrown
       /\ error' = e
       /\ UNCHANGED <<docIdx, docAttempt, docDelays>>
  ELSE /\ pc' = "insertOne"
       /\ docDelays' = Append(docDelays, Delay(docAttempt))
       /\ docAttempt' = docAttempt + 1
       /\ UNCHANGED <<docIdx, error>>

\* insertOne rejects with a duplicate key error.
InsertOneDuplicate ==
  /\ pc = "insertOne"
  /\ Dups({CurrentDoc}) # {}
  /\ singleLog' = Append(singleLog, [doc |-> docIdx, outcome |-> "other"])
  /\ InsertOneCatch(DuplicateKey)
  /\ destOps' = destOps \cup {"insert"}
  /\ LoggedInsert("insertOne")
  /\ UNCHANGED <<xVars, entry, pageSize, envVars, placeVars, collVars,
                 documents, attempt, handed, bulkLog, batchDelays,
                 faultVars>>

\* insertOne rejects because of a fault; the document may have been
\* written before the error was reported.
InsertOneFault ==
  /\ pc = "insertOne"
  /\ MayFault
  /\ \E e \in Errors \ {DuplicateKey}, applied \in BOOLEAN :
       /\ applied => Dups({CurrentDoc}) = {}
       /\ dest' = IF applied THEN Inserted({CurrentDoc}) ELSE dest
       /\ singleLog' = Append(singleLog, [doc |-> docIdx, outcome |-> e.kind])
       /\ InsertOneCatch(e)
  /\ FaultRaised
  /\ destOps' = destOps \cup {"insert"}
  /\ LoggedInsert("insertOne")
  /\ UNCHANGED <<xVars, entry, pageSize, source, placeVars, collVars,
                 documents, attempt, handed, bulkLog, batchDelays>>

\* The steps of insertBatch and insertIndividually.
InsertBatchStep ==
  \/ InsertManyOk
  \/ InsertManyDuplicate
  \/ InsertManyFault
  \/ PingThenRetry
  \/ InsertOneOk
  \/ InsertOneDuplicate
  \/ InsertOneFault

(* -------------------------- cloneCollection --------------------------- *)

\* The source collection cloneCollection reads.
SourceDocs == source[dbName][collectionName].docs

\* For comparison: a cloneDatabases that ignores skipIndexes.
AfterCloneCollectionToIndexes ==
  IF entry = "cloneCollection" THEN "done" ELSE "indexes"

\* Where the run goes when cloneCollection returns.
AfterCloneCollection ==
  IF entry = "cloneCollection" THEN "done"
  ELSE IF skipIndexes THEN "nextCollection" ELSE "indexes"

\* `const totalDocs = await safeEstimatedCount(sourceCollection)`,
\* `let processedDocs = 0; let lastId = undefined`.
CountDocuments ==
  /\ pc = "count"
  /\ totalDocs' = Cardinality(SourceDocs)
  /\ processedDocs' = 0
  /\ lastId' = Undefined
  /\ handed' = <<>>
  /\ pc' = "find"
  /\ UNCHANGED <<xVars, entry, error, pageSize, envVars, placeVars, destOps, page,
                 batchVars, bulkLog, singleLog, batchDelays, docDelays,
                 calls, faultVars>>

\* estimatedDocumentCount and the aggregate of its catch both reject.
CountFault ==
  /\ pc = "count"
  /\ MayFault
  /\ error' = NetworkFault
  /\ pc' = Thrown
  /\ FaultRaised
  /\ UNCHANGED <<xVars, entry, pageSize, envVars, placeVars, destOps, collVars,
                 batchVars, histVars>>

\* The page of this turn of the loop is empty: `break`, and return.
FindEmptyPage ==
  /\ pc = "find"
  /\ FindPage(SourceDocs, lastId, pageSize) = <<>>
  /\ page' = <<>>
  /\ Logged("find", collectionName, "empty", TRUE)
  /\ pc' = AfterCloneCollection
  /\ UNCHANGED <<xVars, entry, error, pageSize, envVars, placeVars, destOps, totalDocs,
                 processedDocs, lastId, batchVars, batchHist, faultVars>>

\* The page holds documents: `await insertBatch(destinationCollection, page)`
\* starts, with attempt = 1.
FindPageAndInsert ==
  /\ pc = "find"
  /\ FindPage(SourceDocs, lastId, pageSize) # <<>>
  /\ page' = FindPage(SourceDocs, lastId, pageSize)
  /\ documents' = page'
  /\ attempt' = 1
  /\ handed' = handed \o page'
  /\ bulkLog' = <<>>
  /\ singleLog' = <<>>
  /\ batchDelays' = <<>>
  /\ docDelays' = <<>>
  /\ Logged("find", collectionName, "page", TRUE)
  /\ pc' = "insertMany"
  /\ UNCHANGED <<xVars, entry, error, pageSize, envVars, placeVars, destOps, totalDocs,
                 processedDocs, lastId, docIdx, docAttempt, faultVars>>

\* The find rejects: cloneCollection does not catch it.
FindFault ==
  /\ pc = "find"
  /\ MayFault
  /\ error' = NetworkFault
  /\ pc' = Thrown
  /\ FaultRaised
  /\ UNCHANGED <<xVars, entry, pageSize, envVars, placeVars, destOps, collVars,
                 batchVars, histVars>>

\* insertBatch returned: `processedDocs += page.length`, the new lastId,
\* and the ping whose rejection `.catch(() => {})` drops.
AdvanceCursor ==
  /\ pc = "afterInsertBatch"
  /\ processedDocs' = processedDocs + Len(page)
  /\ lastId' = NextLastId(page, lastId)
  /\ pc' = "find"
  /\ UNCHANGED <<xVars, entry, error, pageSize, envVars, placeVars, destOps, totalDocs,
                 page, batchVars, histVars, faultVars>>

\* The steps of cloneCollection, those of insertBatch included.
CloneCollectionStep ==
  \/ CountDocuments
  \/ CountFault
  \/ FindEmptyPage
  \/ FindPageAndInsert
  \/ FindFault
  \/ AdvanceCursor
  \/ InsertBatchStep

(* ---------------------------- syncIndexes ----------------------------- *)

\* The indexes of the model, in the order indexes() gives them.
IndexOrder == <<"_id_", "a_1", "b_1">>

EmptyColl == [exists |-> TRUE, docs |-> {}, indexes |-> {"_id_"}]

\* The first position after `from` of an index that is not "_id_"
\* (`if (index.name === "_id_") continue`), 0 when there is none.
NextIndex(ixs, from) ==
  IF \E i \in from + 1 .. Len(ixs) : ixs[i] # "_id_"
  THEN CHOOSE i \in from + 1 .. Len(ixs) :
         /\ ixs[i] # "_id_"
         /\ \A j \in from + 1 .. i - 1 : ixs[j] = "_id_"
  ELSE 0

\* The for loop of syncIndexes goes on to the index at position i, or
\* syncIndexes returns.
GoToIndex(i) ==
  /\ indexIdx' = i
  /\ pc' = IF i = 0 THEN "nextCollection" ELSE "createIndex"

\* `const indexes = await sourceCollection.indexes()`
ListIndexes ==
  /\ pc = "indexes"
  /\ indexes' = SelectSeq(IndexOrder,
                   LAMBDA n : n \in source[dbName][collectionName].indexes)
  /\ GoToIndex(NextIndex(indexes', 0))
  /\ Logged("indexes", collectionName, "", TRUE)
  /\ UNCHANGED <<xVars, entry, error, pageSize, envVars, cliVars, dbVars, dest0,
                 asked, destOps, collVars, batchVars, batchHist, faultVars>>

\* indexes() rejects: syncIndexes does not catch it.
ListIndexesFault ==
  /\ pc = "indexes"
  /\ MayFault
  /\ error' = NetworkFault
  /\ Logged("indexes", collectionName, "", FALSE)
  /\ pc' = Thrown
  /\ FaultRaised
  /\ UNCHANGED <<xVars, entry, pageSize, envVars, placeVars, destOps, collVars,
                 batchVars, batchHist>>

\* `await destinationCollection.createIndex(index.key, options)` resolves.
CreateIndexOk ==
  /\ pc = "createIndex"
  /\ dest' = [dest EXCEPT ![dbName][collectionName] =
                [exists |-> TRUE, docs |-> @.docs,
                 indexes |-> @.indexes \cup {"_id_", indexes[indexIdx]}]]
  /\ destOps' = destOps \cup {"createIndex"}
  /\ Logged("createIndex", collectionName, indexes[indexIdx], TRUE)
  /\ GoToIndex(NextIndex(indexes, indexIdx))
  /\ UNCHANGED <<xVars, entry, error, pageSize, source, cliVars, dbVars, indexes,
                 dest0, asked, collVars, batchVars, batchHist, faultVars>>

\* For comparison: a syncIndexes that does not catch the rejection.
CreateIndexThrows ==
  /\ pc = "createIndex"
  /\ destOps' = destOps \cup {"createIndex"}
  /\ Logged("createIndex", collectionName, indexes[indexIdx], FALSE)
  /\ MayFault
  /\ error' = NetworkFault
  /\ pc' = Thrown
  /\ FaultRaised
  /\ UNCHANGED <<xVars, entry, pageSize, envVars, placeVars, collVars, batchVars,
                 batchHist>>

\* createIndex rejects: the catch logs the failure and the loop goes on.
\* The server may have built the index all the same.
CreateIndexFault ==
  /\ pc = "createIndex"
  /\ MayFault
  /\ \E applied \in BOOLEAN :
       dest' = IF applied
               THEN [dest EXCEPT ![dbName][collectionName] =
                       [exists |-> TRUE, docs |-> @.docs,
                        indexes |-> @.indexes \cup {"_id_", indexes[indexIdx]}]]
               ELSE dest
  /\ destOps' = destOps \cup {"createIndex"}
  /\ Logged("createIndex", collectionName, indexes[indexIdx], FALSE)
  /\ GoToIndex(NextIndex(indexes, indexIdx))
  /\ FaultRaised
  /\ UNCHANGED <<xVars, entry, error, pageSize, source, cliVars, dbVars, indexes,
                 dest0, asked, collVars, batchVars, batchHist>>

SyncIndexesStep ==
  \/ ListIndexes
  \/ ListIndexesFault
  \/ CreateIndexOk
  \/ CreateIndexFault

(* --------------------------- cloneDatabases --------------------------- *)

\* `const shouldOverwrite = overwrite.includes(dbName)`
shouldOverwrite == dbName \in Range(overwriteArg)

\* Where the run goes when cloneDatabases returns.
AfterCloneDatabases ==
  IF entry = "cloneDatabases" THEN "done" ELSE "finally"

\* The head of `for (const dbName of databases)`: the next database, its
\* drop when an overwrite was asked for, or the return of cloneDatabases.
NextDatabase ==
  /\ pc = "nextDatabase"
  /\ IF dbIdx = Len(databases)
     THEN /\ pc' = AfterCloneDatabases
          /\ UNCHANGED <<dbIdx, dbName>>
     ELSE /\ dbIdx' = dbIdx + 1
          /\ dbName' = databases[dbIdx + 1]
          /\ pc' = IF dbName' \in Range(overwriteArg)
                   THEN "dropDatabase" ELSE "listSourceCollections"
  /\ UNCHANGED <<xVars, entry, error, pageSize, envVars, cliVars, databases,
                 overwriteArg, sourceCollections, destinationCollectionNames,
                 collIdx, collectionName, indexVars, dest0, asked, destOps,
                 collVars, batchVars, histVars, faultVars>>

\* A call of cloneDatabases rejects and nothing catches it.
Throws ==
  /\ MayFault
  /\ error' = NetworkFault
  /\ pc' = Thrown
  /\ FaultRaised

\* For comparison: an overwrite that leaves the destination database as it
\* is.
DropDatabaseSkipped ==
  /\ pc = "dropDatabase"
  /\ pc' = "listSourceCollections"
  /\ UNCHANGED <<xVars, entry, error, pageSize, envVars, placeVars, destOps,
                 collVars, batchVars, histVars, faultVars>>

\* For comparison: an overwrite that deletes the documents of the database
\* and keeps its collections and their indexes.
DropDatabaseKeepsCollections ==
  /\ pc = "dropDatabase"
  /\ dest' = [dest EXCEPT ![dbName] =
                [c \in CollNames |-> [dest[dbName][c] EXCEPT !.docs = {}]]]
  /\ destOps' = destOps \cup {"dropDatabase"}
  /\ Logged("dropDatabase", "", "", TRUE)
  /\ pc' = "listSourceCollections"
  /\ UNCHANGED <<xVars, entry, error, pageSize, source, placeVars, collVars,
                 batchVars, batchHist, faultVars>>

\* `await destinationDb.dropDatabase()`
DropDatabase ==
  /\ pc = "dropDatabase"
  /\ dest' = [dest EXCEPT ![dbName] = [c \in CollNames |-> NoColl]]
  /\ destOps' = destOps \cup {"dropDatabase"}
  /\ Logged("dropDatabase", "", "", TRUE)
  /\ pc' = "listSourceCollections"
  /\ UNCHANGED <<xVars, entry, error, pageSize, source, placeVars, collVars,
                 batchVars, batchHist, faultVars>>

\* dropDatabase rejects; the database may have been dropped all the same.
DropDatabaseFault ==
  /\ pc = "dropDatabase"
  /\ \E applied \in BOOLEAN :
       dest' = IF applied
               THEN [dest EXCEPT ![dbName] = [c \in CollNames |-> NoColl]]
               ELSE dest
  /\ destOps' = destOps \cup {"dropDatabase"}
  /\ Logged("dropDatabase", "", "", FALSE)
  /\ Throws
  /\ UNCHANGED <<xVars, entry, pageSize, source, placeVars, collVars, batchVars,
                 batchHist>>

\* For comparison: a loop that takes the source collections last first.
ListSourceCollectionsReversed ==
  /\ pc = "listSourceCollections"
  /\ sourceCollections' =
       SelectSeq(<<"c2", "c1">>, LAMBDA c : source[dbName][c].exists)
  /\ pc' = IF sourceCollections' = <<>>
           THEN "nextDatabase" ELSE "listDestinationCollections"
  /\ UNCHANGED <<xVars, entry, error, pageSize, envVars, cliVars, databases,
                 overwriteArg, dbIdx, dbName, destinationCollectionNames,
                 collIdx, collectionName, indexVars, dest0, asked, destOps,
                 collVars, batchVars, histVars, faultVars>>

\* `const sourceCollections = await sourceDb.listCollections().toArray()`;
\* with none the loop continues with the next database.
ListSourceCollections ==
  /\ pc = "listSourceCollections"
  /\ sourceCollections' =
       SelectSeq(CollOrder, LAMBDA c : source[dbName][c].exists)
  /\ pc' = IF sourceCollections' = <<>>
           THEN "nextDatabase" ELSE "listDestinationCollections"
  /\ UNCHANGED <<xVars, entry, error, pageSize, envVars, cliVars, databases,
                 overwriteArg, dbIdx, dbName, destinationCollectionNames,
                 collIdx, collectionName, indexVars, dest0, asked, destOps,
                 collVars, batchVars, histVars, faultVars>>

ListSourceCollectionsFault ==
  /\ pc = "listSourceCollections"
  /\ Throws
  /\ UNCHANGED <<xVars, entry, pageSize, envVars, placeVars, destOps, collVars,
                 batchVars, histVars>>

\* `const destinationCollectionNames = new Set(...)` of the names
\* `await destinationDb.listCollections({}, { nameOnly: true })` gives.
ListDestinationCollections ==
  /\ pc = "listDestinationCollections"
  /\ destinationCollectionNames' =
       {c \in CollNames : dest[dbName][c].exists}
  /\ collIdx' = 0
  /\ pc' = "nextCollection"
  /\ UNCHANGED <<xVars, entry, error, pageSize, envVars, cliVars, databases,
                 overwriteArg, dbIdx, dbName, sourceCollections,
                 collectionName, indexVars, dest0, asked, destOps, collVars,
                 batchVars, histVars, faultVars>>

ListDestinationCollectionsFault ==
  /\ pc = "listDestinationCollections"
  /\ Throws
  /\ UNCHANGED <<xVars, entry, pageSize, envVars, placeVars, destOps, collVars,
                 batchVars, histVars>>

\* For comparison: a loop that skips no collection.
SkipsNever(name) == FALSE

\* `if (!shouldOverwrite && destinationCollectionNames.has(collectionName))`
Skips(name) == ~shouldOverwrite /\ name \in destinationCollectionNames

\* The head of `for (const collectionInfo of sourceCollections)`: the next
\* collection, skipped when it exists and is not overwritten, dropped first
\* when it exists and is overwritten, or the end of the database.
NextCollection ==
  /\ pc = "nextCollection"
  /\ IF collIdx = Len(sourceCollections)
     THEN /\ pc' = "nextDatabase"
          /\ UNCHANGED <<collIdx, collectionName>>
     ELSE /\ collIdx' = collIdx + 1
          /\ collectionName' = sourceCollections[collIdx + 1]
          /\ pc' = IF Skips(collectionName') THEN "nextCollection"
                   ELSE IF collectionName' \in destinationCollectionNames
                   THEN "dropCollection" ELSE "createCollection"
  /\ UNCHANGED <<xVars, entry, error, pageSize, envVars, cliVars, databases,
                 overwriteArg, dbIdx, dbName, sourceCollections,
                 destinationCollectionNames, indexVars, dest0, asked, destOps,
                 collVars, batchVars, histVars, faultVars>>

\* `await destinationDb.collection(collectionName).drop()` resolves, and
\* `destinationCollectionNames.delete(collectionName)`.
DropCollection ==
  /\ pc = "dropCollection"
  /\ dest' = [dest EXCEPT ![dbName][collectionName] = NoColl]
  /\ destOps' = destOps \cup {"drop"}
  /\ Logged("drop", collectionName, "", TRUE)
  /\ destinationCollectionNames' =
       destinationCollectionNames \ {collectionName}
  /\ pc' = "createCollection"
  /\ UNCHANGED <<xVars, entry, error, pageSize, source, cliVars, databases,
                 overwriteArg, dbIdx, dbName, sourceCollections, collIdx,
                 collectionName, indexVars, dest0, asked, collVars,
                 batchVars, batchHist, faultVars>>

\* drop rejects, in no try: cloneDatabases throws. The collection may have
\* been dropped all the same.
DropCollectionFault ==
  /\ pc = "dropCollection"
  /\ \E applied \in BOOLEAN :
       dest' = IF applied
               THEN [dest EXCEPT ![dbName][collectionName] = NoColl]
               ELSE dest
  /\ destOps' = destOps \cup {"drop"}
  /\ Logged("drop", collectionName, "", FALSE)
  /\ Throws
  /\ UNCHANGED <<xVars, entry, pageSize, source, placeVars, collVars, batchVars,
                 batchHist>>

\* `await destinationDb.createCollection(...)` resolves, then
\* `destinationCollectionNames.add(collectionName)`; cloneCollection starts.
CreateCollection ==
  /\ pc = "createCollection"
  /\ dest' = [dest EXCEPT ![dbName][collectionName] = EmptyColl]
  /\ destOps' = destOps \cup {"createCollection"}
  /\ Logged("createCollection", collectionName, "", TRUE)
  /\ destinationCollectionNames' =
       destinationCollectionNames \cup {collectionName}
  /\ pc' = "count"
  /\ UNCHANGED <<xVars, entry, error, pageSize, source, cliVars, databases,
                 overwriteArg, dbIdx, dbName, sourceCollections, collIdx,
                 collectionName, indexVars, dest0, asked, collVars,
                 batchVars, batchHist, faultVars>>

\* createCollection rejects: the catch logs a warning and the code goes on
\* as if the collection were there. The server may have created it all the
\* same.
CreateCollectionFault ==
  /\ pc = "createCollection"
  /\ MayFault
  /\ \E applied \in BOOLEAN :
       dest' = IF applied
               THEN [dest EXCEPT ![dbName][collectionName] = EmptyColl]
               ELSE dest
  /\ destOps' = destOps \cup {"createCollection"}
  /\ Logged("createCollection", collectionName, "", FALSE)
  /\ destinationCollectionNames' =
       destinationCollectionNames \cup {collectionName}
  /\ pc' = "count"
  /\ FaultRaised
  /\ UNCHANGED <<xVars, entry, error, pageSize, source, cliVars, databases,
                 overwriteArg, dbIdx, dbName, sourceCollections, collIdx,
                 collectionName, indexVars, dest0, asked, collVars,
                 batchVars, batchHist>>

\* Between `await destinationDb.dropDatabase()` and the listing of the
\* destination collections another client of the destination creates an
\* empty collection of a name the source has: what the overwrite's
\* `if (destinationCollectionNames.has(collectionName))` is there for. It
\* is one of the disturbances the environment has a budget of; no call of
\* the run is rejected by it.
OtherClientCreates ==
  /\ pc = "listSourceCollections"
  /\ shouldOverwrite
  /\ \E c \in CollNames :
       /\ source[dbName][c].exists
       /\ \A b \in CollNames : ~dest[dbName][b].exists
       /\ dest' = [dest EXCEPT ![dbName][c] = EmptyColl]
  /\ MayFault
  /\ faultsLeft' = IF faultsLeft > 0 THEN faultsLeft - 1 ELSE faultsLeft
  /\ UNCHANGED <<xVars, pc, entry, error, pageSize, source, placeVars, destOps,
                 collVars, batchVars, histVars, faulty>>

\* The steps of cloneDatabases, with those of all it calls.
CloneDatabasesStep ==
  \/ NextDatabase
  \/ DropDatabase
  \/ DropDatabaseFault
  \/ ListSourceCollections
  \/ ListSourceCollectionsFault
  \/ ListDestinationCollections
  \/ ListDestinationCollectionsFault
  \/ OtherClientCreates
  \/ NextCollection
  \/ DropCollection
  \/ DropCollectionFault
  \/ CreateCollection
  \/ CreateCollectionFault
  \/ CloneCollectionStep
  \/ SyncIndexesStep

(* ------------------------------ runCli -------------------------------- *)

\* extractDatabaseNames: the names listDatabases gives, those of the
\* databases that hold a collection, without admin, config and local.
databaseNamesNoConfig(world) ==
  SelectSeq(SelectSeq(DbOrder, LAMBDA d : DbExists(world, d)),
            LAMBDA name : name \notin {"admin", "config", "local"})

\* What the finally block of runCli leaves of a client.
Closed(client) == IF client = "open" THEN "closed" ELSE client

\* `source = await connectToMongo({ mongouri: sourceUri })`
ConnectSource ==
  /\ pc = "connectSource"
  /\ conn' = [conn EXCEPT !.source = "open"]
  /\ pc' = "listDatabaseNames"
  /\ UNCHANGED <<xVars, entry, error, pageSize, envVars, options, skipIndexes,
                 selectedDatabases, conflictingDatabases, conflictIdx,
                 resolution, overwrite, skip, lastDecision, dbVars, indexVars,
                 dest0, asked, destOps, collVars, batchVars, histVars,
                 faultVars>>

\* connectToMongo rejects, at `client.connect()` or at the ping that
\* follows it; after the ping's failure the client stays connected and no
\* variable of runCli holds it.
ConnectSourceFault ==
  /\ pc = "connectSource"
  /\ \E connected \in BOOLEAN :
       conn' = [conn EXCEPT !.source = IF connected THEN "leaked" ELSE "none"]
  /\ Throws
  /\ UNCHANGED <<xVars, entry, pageSize, envVars, options, skipIndexes, selectedDatabases,
                 conflictingDatabases, conflictIdx, resolution, overwrite,
                 skip, lastDecision, dbVars, indexVars, dest0, asked, destOps,
                 collVars, batchVars, histVars>>

\* `await listDatabaseNames({ mongouri: sourceUri })`, and the return when
\* there is no database.
ListDatabaseNames ==
  /\ pc = "listDatabaseNames"
  /\ pc' = IF Len(databaseNamesNoConfig(source)) = 0
           THEN "finally" ELSE "select"
  /\ UNCHANGED <<xVars, entry, error, pageSize, envVars, placeVars, destOps,
                 collVars, batchVars, histVars, faultVars>>

ListDatabaseNamesFault ==
  /\ pc = "listDatabaseNames"
  /\ Throws
  /\ UNCHANGED <<xVars, entry, pageSize, envVars, placeVars, destOps, collVars,
                 batchVars, histVars>>

\* `await promptDatabaseSelection(databaseNamesNoConfig)`: the names the
\* user ticked, all of them with "[Select All]"; the return when none is.
PromptDatabaseSelection ==
  /\ pc = "select"
  /\ selectedDatabases' \in SeqsNoDup(Range(databaseNamesNoConfig(source)))
  /\ pc' = IF Len(selectedDatabases') = 0
           THEN "finally" ELSE "connectDestination"
  /\ UNCHANGED <<xVars, entry, error, pageSize, envVars, conn, options, skipIndexes,
                 conflictingDatabases, conflictIdx, resolution, overwrite,
                 skip, lastDecision, dbVars, indexVars, dest0, asked, destOps,
                 collVars, batchVars, histVars, faultVars>>

\* `destination = await connectToMongo({ mongouri: destinationUri })`
ConnectDestination ==
  /\ pc = "connectDestination"
  /\ conn' = [conn EXCEPT !.destination = "open"]
  /\ pc' = "listDestinationDatabases"
  /\ UNCHANGED <<xVars, entry, error, pageSize, envVars, options, skipIndexes,
                 selectedDatabases, conflictingDatabases, conflictIdx,
                 resolution, overwrite, skip, lastDecision, dbVars, indexVars,
                 dest0, asked, destOps, collVars, batchVars, histVars,
                 faultVars>>

ConnectDestinationFault ==
  /\ pc = "connectDestination"
  /\ \E connected \in BOOLEAN :
       conn' = [conn EXCEPT
                  !.destination = IF connected THEN "leaked" ELSE "none"]
  /\ Throws
  /\ UNCHANGED <<xVars, entry, pageSize, envVars, options, skipIndexes, selectedDatabases,
                 conflictingDatabases, conflictIdx, resolution, overwrite,
                 skip, lastDecision, dbVars, indexVars, dest0, asked, destOps,
                 collVars, batchVars, histVars>>

\* For comparison: the conflicts in the order the destination lists them.
ConflictsInListingOrder(selected, destinationDatabases) ==
  SelectSeq(destinationDatabases, LAMBDA name : name \in Range(selected))

\* `selectedDatabases.filter((name) => destinationDatabases.includes(name))`
Conflicts(selected, destinationDatabases) ==
  SelectSeq(selected, LAMBDA name : name \in Range(destinationDatabases))

\* For comparison: a runCli that queues every selected database.
databasesToCloneAll(selected, skipped) == selected

\* `selectedDatabases.filter((name) => !skip.includes(name))`
databasesToClone(selected, skipped) ==
  SelectSeq(selected, LAMBDA name : name \notin Range(skipped))

\* `if (databasesToClone.length === 0) return`, else promptToBeSure is next.
AfterResolution(skipped) ==
  IF Len(databasesToClone(selectedDatabases, skipped)) = 0
  THEN "finally" ELSE "sure"

\* `await listDatabaseNamesFromClient(destination)`, conflictingDatabases,
\* and with no conflict the way to promptToBeSure.
ListDestinationDatabases ==
  /\ pc = "listDestinationDatabases"
  /\ conflictingDatabases' =
       Conflicts(selectedDatabases, databaseNamesNoConfig(dest))
  /\ conflictIdx' = 0
  /\ resolution' = NoResolution
  /\ pc' = IF Len(conflictingDatabases') > 0
           THEN "conflict" ELSE AfterResolution(skip)
  /\ UNCHANGED <<xVars, entry, error, pageSize, envVars, conn, options, skipIndexes,
                 selectedDatabases, overwrite, skip, lastDecision, dbVars,
                 indexVars, dest0, asked, destOps, collVars, batchVars,
                 histVars, faultVars>>

ListDestinationDatabasesFault ==
  /\ pc = "listDestinationDatabases"
  /\ Throws
  /\ UNCHANGED <<xVars, entry, pageSize, envVars, placeVars, destOps, collVars,
                 batchVars, histVars>>

\* For comparison: a runCli that ignores resolution.cancelled.
CancelledNever(res) == FALSE

\* `if (resolution.cancelled)` return.
Cancelled(res) == res.cancelled

\* One turn of the loop of promptConflictResolution: the prompt for the next
\* conflicting database and the user's choice.  A cancel returns at once, the
\* last turn returns too, and runCli then goes on to its return or to
\* promptToBeSure.
PromptConflictResolution ==
  /\ pc = "conflict"
  /\ \E action \in {"overwrite", "skip", "cancel"} :
       LET name == conflictingDatabases[conflictIdx + 1]
           res == IF action = "cancel"
                  THEN [resolution EXCEPT !.cancelled = TRUE]
                  ELSE IF action = "overwrite"
                  THEN [resolution EXCEPT !.overwrite = Append(@, name)]
                  ELSE [resolution EXCEPT !.skip = Append(@, name)]
           returned == \/ action = "cancel"
                       \/ conflictIdx + 1 = Len(conflictingDatabases)
       IN /\ asked' = Append(asked, name)
          /\ conflictIdx' = conflictIdx + 1
          /\ resolution' = res
          /\ IF ~returned
             THEN /\ pc' = "conflict"
                  /\ UNCHANGED <<overwrite, skip>>
             ELSE IF Cancelled(res)
             THEN /\ pc' = "finally"
                  /\ UNCHANGED <<overwrite, skip>>
             ELSE /\ overwrite' = res.overwrite
                  /\ skip' = res.skip
                  /\ pc' = AfterResolution(res.skip)
  /\ UNCHANGED <<xVars, entry, error, pageSize, envVars, conn, options, skipIndexes,
                 selectedDatabases, conflictingDatabases, lastDecision,
                 dbVars, indexVars, dest0, destOps, collVars, batchVars,
                 histVars, faultVars>>

\* What the user may type at "Ready to start cloning? (Y/N)".
Answers == {"Y", "y", " y ", "N", "n ", "yes", ""}

\* `value?.trim().toUpperCase()` on those answers.
trimAndUpper(value) ==
  CASE value \in {"Y", "y", " y "} -> "Y"
    [] value \in {"N", "n "} -> "N"
    [] value = "yes" -> "YES"
    [] value = "" -> ""

\* `options.skipIndexes ?? false`
OrFalse(option) == IF option = "undefined" THEN FALSE ELSE option = "true"

\* For comparison: a runCli that ignores the confirmation.
ConfirmedAlways(decision) == TRUE

\* `if (lastDecision !== "Y")` return.
Confirmed(decision) == decision = "Y"

\* One turn of the loop of promptToBeSure, which asks again until the
\* answer is Y or N; then the return of runCli or the call of cloneDatabases.
PromptToBeSure ==
  /\ pc = "sure"
  /\ \E answer \in Answers :
       LET decision == trimAndUpper(answer)
           queued == databasesToClone(selectedDatabases, skip)
       IN IF decision # "Y" /\ decision # "N"
          THEN UNCHANGED <<pc, lastDecision, databases, overwriteArg,
                           skipIndexes>>
          ELSE /\ lastDecision' = decision
               /\ IF Confirmed(decision)
                  THEN /\ databases' = queued
                       /\ skipIndexes' = OrFalse(options)
                       /\ overwriteArg' =
                            SelectSeq(overwrite,
                                      LAMBDA name : name \in Range(queued))
                       /\ pc' = "nextDatabase"
                  ELSE /\ pc' = "finally"
                       /\ UNCHANGED <<databases, overwriteArg, skipIndexes>>
  /\ UNCHANGED <<xVars, entry, error, pageSize, envVars, conn, options,
                 selectedDatabases, conflictingDatabases, conflictIdx,
                 resolution, overwrite, skip, dbIdx, dbName,
                 sourceCollections, destinationCollectionNames, collIdx,
                 collectionName, indexVars, dest0, asked, destOps, collVars,
                 batchVars, histVars, faultVars>>

\* The finally block: `if (source)` then `await source.close()`.
CloseSource ==
  /\ pc = "finally"
  /\ conn' = [conn EXCEPT !.source = Closed(@)]
  /\ pc' = "closeDestination"
  /\ UNCHANGED <<xVars, entry, error, pageSize, envVars, options, skipIndexes,
                 selectedDatabases, conflictingDatabases, conflictIdx,
                 resolution, overwrite, skip, lastDecision, dbVars, indexVars,
                 dest0, asked, destOps, collVars, batchVars, histVars,
                 faultVars>>

\* `source.close()` rejects: the catch warns and the block goes on.
CloseSourceFault ==
  /\ pc = "finally"
  /\ conn.source = "open"
  /\ MayFault
  /\ conn' = [conn EXCEPT !.source = "closeFailed"]
  /\ pc' = "closeDestination"
  /\ FaultRaised
  /\ UNCHANGED <<xVars, entry, error, pageSize, envVars, options, skipIndexes,
                 selectedDatabases, conflictingDatabases, conflictIdx,
                 resolution, overwrite, skip, lastDecision, dbVars, indexVars,
                 dest0, asked, destOps, collVars, batchVars, histVars>>

\* `if (destination)` then `await destination.close()`; runCli returns.
CloseDestination ==
  /\ pc = "closeDestination"
  /\ conn' = [conn EXCEPT !.destination = Closed(@)]
  /\ pc' = "exit"
  /\ UNCHANGED <<xVars, entry, error, pageSize, envVars, options, skipIndexes,
                 selectedDatabases, conflictingDatabases, conflictIdx,
                 resolution, overwrite, skip, lastDecision, dbVars, indexVars,
                 dest0, asked, destOps, collVars, batchVars, histVars,
                 faultVars>>

CloseDestinationFault ==
  /\ pc = "closeDestination"
  /\ conn.destination = "open"
  /\ MayFault
  /\ conn' = [conn EXCEPT !.destination = "closeFailed"]
  /\ pc' = "exit"
  /\ FaultRaised
  /\ UNCHANGED <<xVars, entry, error, pageSize, envVars, options, skipIndexes,
                 selectedDatabases, conflictingDatabases, conflictIdx,
                 resolution, overwrite, skip, lastDecision, dbVars, indexVars,
                 dest0, asked, destOps, collVars, batchVars, histVars>>

\* The steps of runCli, with those of all it calls.
RunCliStep ==
  \/ ConnectSource
  \/ ConnectSourceFault
  \/ ListDatabaseNames
  \/ ListDatabaseNamesFault
  \/ PromptDatabaseSelection
  \/ ConnectDestination
  \/ ConnectDestinationFault
  \/ ListDestinationDatabases
  \/ ListDestinationDatabasesFault
  \/ PromptConflictResolution
  \/ PromptToBeSure
  \/ CloneDatabasesStep
  \/ CloseSource
  \/ CloseSourceFault
  \/ CloseDestination
  \/ CloseDestinationFault

(* ------------------- Xronox migration: the data ------------------------ *)

\* The values a field `id` of a record takes in the model: undefined (no such
\* field), null, a boolean, a number, a string (its characters) or an
\* identifier that randomUUID produced (its rank).
Undef == [type |-> "undefined", num |-> 0, str |-> <<>>]
Null == [type |-> "null", num |-> 0, str |-> <<>>]
Bool(b) == [type |-> "boolean", num |-> IF b THEN 1 ELSE 0, str |-> <<>>]
Num(n) == [type |-> "number", num |-> n, str |-> <<>>]
Str(chars) == [type |-> "string", num |-> 0, str |-> chars]
Uuid(n) == [type |-> "uuid", num |-> n, str |-> <<>>]

\* The strings of the model.
Strings ==
  {<<>>, <<" ">>, <<" ", " ">>, <<"a">>, <<" ", "a">>, <<"a", " ">>}

IdValues ==
  {Undef, Null, Bool(FALSE), Bool(TRUE), Num(0), Num(7)}
    \cup {Str(chars) : chars \in Strings}

\* `!v`
Falsy(v) ==
  \/ v.type \in {"undefined", "null"}
  \/ v.type \in {"boolean", "number"} /\ v.num = 0
  \/ v.type = "string" /\ v.str = <<>>

RECURSIVE TrimStart(_)
TrimStart(chars) ==
  IF chars # <<>> /\ Head(chars) = " " THEN TrimStart(Tail(chars)) ELSE chars

RECURSIVE TrimEnd(_)
TrimEnd(chars) ==
  IF chars # <<>> /\ chars[Len(chars)] = " "
  THEN TrimEnd(SubSeq(chars, 1, Len(chars) - 1)) ELSE chars

\* `String.prototype.trim`
Trim(chars) == TrimEnd(TrimStart(chars))

\* For comparison: a test that takes a string of blanks for an identifier.
NeedsIdUntrimmed(v) == Falsy(v)

\* `!payload.id || (typeof payload.id === "string" && payload.id.trim() === "")`
NeedsId(v) == Falsy(v) \/ (v.type = "string" /\ Trim(v.str) = <<>>)

\* The _id values of the records; 0 is the falsy one.
RecordIds == 0 .. MaxId

\* The name of the collection the migration works on.
XCollection == "c1"

\* `jsonKey(collectionName, idHex, 0)`: the key is made of the three.
JsonKey(name, idHex, ov) == <<name, idHex, ov>>

\* The empty string as a storage key.
NoKey == <<>>

\* The keys of the bucket the migration of the collection can write.
XKeys == {JsonKey(XCollection, i, 0) : i \in RecordIds}

\* record.metaIndexed: absent, or an object with a field of its own.
NoMeta == [present |-> FALSE, tag |-> "", id |-> Undef]

NoPayload == [id |-> Undef, meta |-> NoMeta, body |-> ""]

\* `_system` of a document: absent, or with cv and the storage pointer.
NoSystem ==
  [present |-> FALSE, cv |-> 0, key |-> NoKey, size |-> 0,
   checksum |-> <<>>]

\* No document under an _id.
NoDoc ==
  [exists |-> FALSE, _id |-> 0, id |-> Undef, meta |-> NoMeta,
   system |-> NoSystem, body |-> ""]

\* A record of the source collection as the application wrote it.
SourceRecord(i, v, m) ==
  [exists |-> TRUE, _id |-> i, id |-> v, meta |-> m, system |-> NoSystem,
   body |-> "src"]

\* No object under a key of the bucket.
NoObject == [exists |-> FALSE, content |-> NoPayload]

\* `JSON.stringify(payload)`: the fields that are defined, in order.
Stringify(p) ==
  (IF p.id.type = "undefined" THEN <<>> ELSE <<p.id>>)
    \o (IF p.meta.present THEN <<p.meta>> ELSE <<>>)
    \o (IF p.body = "" THEN <<>> ELSE <<p.body>>)

\* `Buffer.byteLength(jsonContent, "utf8")`, counted in fields.
ByteLength(jsonContent) == Len(jsonContent)

\* `createHash("sha256").update(jsonContent).digest("hex")`: two contents
\* have the same digest when they are the same.
Sha256(jsonContent) == jsonContent

\* `existingHead && existingHead._system?.storage?.key`
HasStorageKey(doc) ==
  doc.exists /\ doc.system.present /\ doc.system.key # NoKey

(* ----------------------- migrateDocument ------------------------------ *)

\* The state of the copy engine, which the migration leaves alone.
cloneVars == <<pageSize, envVars, placeVars, destOps, collVars, batchVars,
               histVars>>

\* Where the run goes when migrateDocument returns.
AfterMigrateDocument ==
  IF entry = "migrateDocument" THEN "done" ELSE "hasNext"

\* A call made for the record at hand: it is the next of the history.
XLogged(op, ok) ==
  xlog' = Append(xlog, [op |-> op, id |-> record._id, ok |-> ok])

\* `const payload = { ...record }; delete payload._id; delete payload._system`
Stripped(rec) == [id |-> rec.id, meta |-> rec.meta, body |-> rec.body]

\* The payload of a record, `payload.id = randomUUID()` where it needs one;
\* token is what randomUUID gives.
PayloadOf(rec, token) ==
  IF NeedsId(Stripped(rec).id)
  THEN [Stripped(rec) EXCEPT !.id = token]
  ELSE Stripped(rec)

\* headDoc, from the record, the payload that was uploaded and cv.
HeadDocOf(rec, p, cv) ==
  [exists |-> TRUE,
   _id    |-> rec._id,
   id     |-> p.id,
   meta   |-> [present |-> TRUE,
               tag     |-> IF rec.meta.present THEN rec.meta.tag ELSE "",
               id      |-> IF p.id.type # "undefined" THEN p.id
                           ELSE IF rec.meta.present THEN rec.meta.id
                           ELSE Undef],
   system |-> [present  |-> TRUE,
               cv       |-> cv,
               key      |-> JsonKey(XCollection, rec._id, 0),
               size     |-> ByteLength(Stringify(p)),
               checksum |-> Sha256(Stringify(p))],
   body   |-> ""]

\* For comparison: a resume that never skips.
AlreadyMigratedNever(existingHead) == FALSE

\* `existingHead && existingHead._system?.storage?.key`
AlreadyMigrated(existingHead) == HasStorageKey(existingHead)

\* The payload is derived and the upload is next.
ToUpload ==
  /\ payload' = PayloadOf(record, Uuid(uuids + 1))
  /\ uuids' = IF NeedsId(Stripped(record).id) THEN uuids + 1 ELSE uuids
  /\ pc' = "putJSON"

\* `if (!id) return null`
ReturnNullWithoutId ==
  /\ pc = "migrateDocument"
  /\ record._id = 0
  /\ result' = "null"
  /\ pc' = AfterMigrateDocument
  /\ UNCHANGED <<entry, error, cloneVars, faultVars, args, resume, validate,
                 sameDeployment, targetVars, total, migrated, records, cursor,
                 record, payload, headDoc, uuids, validateVars, xlog>>

\* Without resume the payload is derived at once.
DerivePayload ==
  /\ pc = "migrateDocument"
  /\ record._id # 0
  /\ ~resume
  /\ ToUpload
  /\ UNCHANGED <<entry, error, cloneVars, faultVars, args, resume, validate,
                 sameDeployment, targetVars, total, migrated, records, cursor,
                 record, result, headDoc, validateVars, xlog>>

\* With resume: `await headCollection.findOne({ _id: id })`, then
\* `return null` for a head with a storage key, else the payload.
FindOneHead ==
  /\ pc = "migrateDocument"
  /\ record._id # 0
  /\ resume
  /\ XLogged("findOne", TRUE)
  /\ IF AlreadyMigrated(heads[record._id])
     THEN /\ result' = "null"
          /\ pc' = AfterMigrateDocument
          /\ UNCHANGED <<payload, uuids>>
     ELSE /\ ToUpload
          /\ UNCHANGED result
  /\ UNCHANGED <<entry, error, cloneVars, faultVars, args, resume, validate,
                 sameDeployment, targetVars, total, migrated, records, cursor,
                 record, headDoc, validateVars>>

FindOneHeadFault ==
  /\ pc = "migrateDocument"
  /\ record._id # 0
  /\ resume
  /\ XLogged("findOne", FALSE)
  /\ Throws
  /\ UNCHANGED <<entry, cloneVars, args, resume, validate, sameDeployment,
                 targetVars, migrateVars, validateVars>>

\* The key the payload of the record at hand goes to.
Key == JsonKey(XCollection, record._id, 0)

\* `await storage.storage.putJSON(storage.bucket, key, payload)`
PutJSON ==
  /\ pc = "putJSON"
  /\ storage' = [storage EXCEPT ![Key] = [exists |-> TRUE, content |-> payload]]
  /\ XLogged("putJSON", TRUE)
  /\ pc' = "incCv"
  /\ UNCHANGED <<entry, error, cloneVars, faultVars, args, resume, validate,
                 sameDeployment, sourceColl, heads, base, counter,
                 migrateVars, validateVars>>

\* For comparison: a migrateDocument that goes on to the head after an
\* upload that was rejected.
PutJSONFaultSwallowed ==
  /\ pc = "putJSON"
  /\ MayFault
  /\ FaultRaised
  /\ XLogged("putJSON", FALSE)
  /\ pc' = "incCv"
  /\ UNCHANGED <<entry, error, cloneVars, args, resume, validate,
                 sameDeployment, targetVars, migrateVars, validateVars>>

\* putJSON rejects; the object may have been stored all the same.
PutJSONFault ==
  /\ pc = "putJSON"
  /\ \E applied \in BOOLEAN :
       storage' = IF applied
                  THEN [storage EXCEPT
                          ![Key] = [exists |-> TRUE, content |-> payload]]
                  ELSE storage
  /\ XLogged("putJSON", FALSE)
  /\ Throws
  /\ UNCHANGED <<entry, cloneVars, args, resume, validate, sameDeployment,
                 sourceColl, heads, base, counter, migrateVars,
                 validateVars>>

\* For comparison: a migrateDocument that does not increment the counter
\* and takes its present value for cv.
IncCvSkipped ==
  /\ pc = "incCv"
  /\ headDoc' = HeadDocOf(record, payload, counter)
  /\ XLogged("incCv", TRUE)
  /\ pc' = "replaceHead"
  /\ UNCHANGED <<entry, error, cloneVars, faultVars, args, resume, validate,
                 sameDeployment, targetVars, total, migrated, records, cursor,
                 record, result, payload, uuids, validateVars>>

\* `const cv = await repos.incCv(undefined)`, and headDoc built from it.
IncCv ==
  /\ pc = "incCv"
  /\ counter' = counter + 1
  /\ headDoc' = HeadDocOf(record, payload, counter')
  /\ XLogged("incCv", TRUE)
  /\ pc' = "replaceHead"
  /\ UNCHANGED <<entry, error, cloneVars, faultVars, args, resume, validate,
                 sameDeployment, sourceColl, heads, base, storage, total,
                 migrated, records, cursor, record, result, payload, uuids,
                 validateVars>>

\* incCv rejects; the counter may have been incremented all the same.
IncCvFault ==
  /\ pc = "incCv"
  /\ \E applied \in BOOLEAN :
       counter' = IF applied THEN counter + 1 ELSE counter
  /\ XLogged("incCv", FALSE)
  /\ Throws
  /\ UNCHANGED <<entry, cloneVars, args, resume, validate, sameDeployment,
                 sourceColl, heads, base, storage, migrateVars,
                 validateVars>>

\* `await headCollection.replaceOne({ _id: id }, headDoc, { upsert: true })`
ReplaceHead ==
  /\ pc = "replaceHead"
  /\ heads' = [heads EXCEPT ![record._id] = headDoc]
  /\ XLogged("replaceHead", TRUE)
  /\ pc' = "replaceBase"
  /\ UNCHANGED <<entry, error, cloneVars, faultVars, args, resume, validate,
                 sameDeployment, sourceColl, base, storage, counter,
                 migrateVars, validateVars>>

ReplaceHeadFault ==
  /\ pc = "replaceHead"
  /\ \E applied \in BOOLEAN :
       heads' = IF applied THEN [heads EXCEPT ![record._id] = headDoc]
                ELSE heads
  /\ XLogged("replaceHead", FALSE)
  /\ Throws
  /\ UNCHANGED <<entry, cloneVars, args, resume, validate, sameDeployment,
                 sourceColl, base, storage, counter, migrateVars,
                 validateVars>>

\* The base collection after the replaceOne; it is the source collection
\* when the router sends the collection to the source deployment.
BaseReplaced ==
  /\ base' = [base EXCEPT ![record._id] = headDoc]
  /\ sourceColl' = IF sameDeployment
                   THEN [sourceColl EXCEPT ![record._id] = headDoc]
                   ELSE sourceColl

\* `await baseCollection.replaceOne({ _id: id }, headDoc, { upsert: true })`,
\* `return { idHex }`, and in migrateCollection `migrated += 1`.
ReplaceBase ==
  /\ pc = "replaceBase"
  /\ BaseReplaced
  /\ XLogged("replaceBase", TRUE)
  /\ result' = "idHex"
  /\ migrated' = IF entry = "migrateDocument" THEN migrated ELSE migrated + 1
  /\ pc' = AfterMigrateDocument
  /\ UNCHANGED <<entry, error, cloneVars, faultVars, args, resume, validate,
                 sameDeployment, heads, storage, counter, total, records,
                 cursor, record, payload, headDoc, uuids, validateVars>>

ReplaceBaseFault ==
  /\ pc = "replaceBase"
  /\ \E applied \in BOOLEAN :
       IF applied THEN BaseReplaced ELSE UNCHANGED <<base, sourceColl>>
  /\ XLogged("replaceBase", FALSE)
  /\ Throws
  /\ UNCHANGED <<entry, cloneVars, args, resume, validate, sameDeployment,
                 heads, storage, counter, migrateVars, validateVars>>

\* The steps of migrateDocument.
MigrateDocumentStep ==
  \/ ReturnNullWithoutId
  \/ DerivePayload
  \/ FindOneHead
  \/ FindOneHeadFault
  \/ PutJSON
  \/ PutJSONFault
  \/ IncCv
  \/ IncCvFault
  \/ ReplaceHead
  \/ ReplaceHeadFault
  \/ ReplaceBase
  \/ ReplaceBaseFault

(* --------------- migrateCollection and validateCollection ---------------- *)

\* The orders in which a cursor of `find({})` may give the _ids of the
\* documents of a collection: the find has no sort, the order is the
\* server's.
IdsOf(coll) ==
  LET present == {i \in RecordIds : coll[i].exists}
  IN {q \in SeqsNoDup(present) : Len(q) = Cardinality(present)}

\* Where validateCollection returns to.
AfterValidate == "done"

\* `const total = await sourceCollection.countDocuments()`, and
\* `if (total === 0) return`.
CountSourceDocuments ==
  /\ pc = "countDocuments"
  /\ total' = Cardinality({i \in RecordIds : sourceColl[i].exists})
  /\ pc' = IF total' = 0 THEN "done" ELSE "prepare"
  /\ UNCHANGED <<entry, error, cloneVars, faultVars, args, resume, validate,
                 sameDeployment, targetVars, migrated, records, cursor,
                 record, result, payload, headDoc, uuids, validateVars, xlog>>

CountSourceDocumentsFault ==
  /\ pc = "countDocuments"
  /\ Throws
  /\ UNCHANGED <<entry, cloneVars, args, resume, validate, sameDeployment,
                 targetVars, migrateVars, validateVars, xlog>>

\* router.route, getMongoClient, getSpaces, repos.ensureIndexes, then
\* `let migrated = 0` and `sourceCollection.find({}, { batchSize })`.
PrepareTarget ==
  /\ pc = "prepare"
  /\ migrated' = 0
  /\ records' \in IdsOf(sourceColl)
  /\ cursor' = 0
  /\ pc' = "hasNext"
  /\ UNCHANGED <<entry, error, cloneVars, faultVars, args, resume, validate,
                 sameDeployment, targetVars, total, record, result, payload,
                 headDoc, uuids, validateVars, xlog>>

PrepareTargetFault ==
  /\ pc = "prepare"
  /\ Throws
  /\ UNCHANGED <<entry, cloneVars, args, resume, validate, sameDeployment,
                 targetVars, migrateVars, validateVars, xlog>>

\* `while (await cursor.hasNext())`, `const doc = await cursor.next()`: the
\* next document, as the source collection holds it, goes to
\* migrateDocument.
NextRecord ==
  /\ pc = "hasNext"
  /\ cursor < Len(records)
  /\ cursor' = cursor + 1
  /\ record' = sourceColl[records[cursor + 1]]
  /\ result' = ""
  /\ payload' = NoPayload
  /\ headDoc' = NoDoc
  /\ pc' = "migrateDocument"
  /\ UNCHANGED <<entry, error, cloneVars, faultVars, args, resume, validate,
                 sameDeployment, targetVars, total, migrated, records, uuids,
                 validateVars, xlog>>

\* `await cursor.hasNext()` or `await cursor.next()` rejects, at any turn
\* of the loop, the one after the last document too.
NextRecordFault ==
  /\ pc = "hasNext"
  /\ Throws
  /\ UNCHANGED <<entry, cloneVars, args, resume, validate, sameDeployment,
                 targetVars, migrateVars, validateVars, xlog>>

\* The cursor is exhausted: the 100% line, and
\* `if (options.validate) await validateCollection(...)`.
CursorExhausted ==
  /\ pc = "hasNext"
  /\ cursor = Len(records)
  /\ pc' = IF validate THEN "validate" ELSE "done"
  /\ UNCHANGED <<entry, error, cloneVars, faultVars, xVars>>

\* validateCollection: `headCollection.find({})`, `let validated = 0`,
\* `const failures = []`.
ValidateStart ==
  /\ pc = "validate"
  /\ records' \in IdsOf(heads)
  /\ cursor' = 0
  /\ validated' = 0
  /\ failures' = <<>>
  /\ pc' = "vHasNext"
  /\ UNCHANGED <<entry, error, cloneVars, faultVars, args, resume, validate,
                 sameDeployment, targetVars, total, migrated, record, result,
                 payload, headDoc, uuids, report, xlog>>

\* `const doc = await cursor.next()`, and
\* `if (!doc || !doc._system?.storage?.key) continue`.
ValidateNext ==
  /\ pc = "vHasNext"
  /\ cursor < Len(records)
  /\ cursor' = cursor + 1
  /\ record' = heads[records[cursor + 1]]
  /\ pc' = IF HasStorageKey(record') THEN "getJSON" ELSE "vHasNext"
  /\ UNCHANGED <<entry, error, cloneVars, faultVars, args, resume, validate,
                 sameDeployment, targetVars, total, migrated, records, result,
                 payload, headDoc, uuids, validateVars, xlog>>

\* The cursor over the heads rejects, at any turn of the loop, the first
\* and the one after the last head too: outside the try of the loop body.
ValidateNextFault ==
  /\ pc = "vHasNext"
  /\ Throws
  /\ UNCHANGED <<entry, cloneVars, args, resume, validate, sameDeployment,
                 targetVars, migrateVars, validateVars, xlog>>

\* For comparison: a validation that also compares the object it read with
\* the size and the checksum of the storage pointer.
ReadableAndIntact(doc) ==
  /\ storage[doc.system.key].exists
  /\ doc.system.checksum = Sha256(Stringify(storage[doc.system.key].content))
  /\ doc.system.size = ByteLength(Stringify(storage[doc.system.key].content))

\* What makes `await storage.storage.getJSON(bucket, key)` resolve: the
\* object is in the bucket.
Readable(doc) == storage[doc.system.key].exists

\* For comparison: a validation that rethrows what getJSON threw.
ValidationFailedThrows ==
  /\ failures' = Append(failures, record._id)
  /\ UNCHANGED validated
  /\ pc' = Thrown

\* `catch (error) { failures.push(doc._id.toString()); console.warn(...) }`
ValidationFailed ==
  /\ failures' = Append(failures, record._id)
  /\ UNCHANGED validated
  /\ pc' = "vHasNext"

\* `try { await getJSON(bucket, key); validated += 1 } catch { ... }`
GetJSON ==
  /\ pc = "getJSON"
  /\ IF Readable(record)
     THEN /\ validated' = validated + 1
          /\ UNCHANGED failures
          /\ pc' = "vHasNext"
          /\ XLogged("getJSON", TRUE)
     ELSE /\ ValidationFailed
          /\ XLogged("getJSON", FALSE)
  /\ UNCHANGED <<entry, error, cloneVars, faultVars, args, resume, validate,
                 sameDeployment, targetVars, migrateVars, report>>

\* getJSON rejects on the network: caught as any other error.
GetJSONFault ==
  /\ pc = "getJSON"
  /\ MayFault
  /\ FaultRaised
  /\ ValidationFailed
  /\ XLogged("getJSON", FALSE)
  /\ UNCHANGED <<entry, error, cloneVars, args, resume, validate,
                 sameDeployment, targetVars, migrateVars, report>>

\* For comparison: a last line that gives both counts.
ReportBoth ==
  [kind |-> IF failures = <<>> THEN "passed" ELSE "failures",
   count |-> Len(failures), passed |-> validated]

\* The last line: `failures.length === 0 ? "Validation passed (${validated}
\* documents)" : "Validation completed with ${failures.length} failures"`.
Report ==
  IF failures = <<>>
  THEN [kind |-> "passed", count |-> 0, passed |-> validated]
  ELSE [kind |-> "failures", count |-> Len(failures), passed |-> -1]

ValidateReport ==
  /\ pc = "vHasNext"
  /\ cursor = Len(records)
  /\ report' = Report
  /\ pc' = AfterValidate
  /\ UNCHANGED <<entry, error, cloneVars, faultVars, args, resume, validate,
                 sameDeployment, targetVars, migrateVars, validated, failures,
                 xlog>>

\* The steps of validateCollection.
ValidateCollectionStep ==
  \/ ValidateStart
  \/ ValidateNext
  \/ ValidateNextFault
  \/ GetJSON
  \/ GetJSONFault
  \/ ValidateReport

\* The steps of migrateCollection.
MigrateCollectionStep ==
  \/ CountSourceDocuments
  \/ CountSourceDocumentsFault
  \/ PrepareTarget
  \/ PrepareTargetFault
  \/ NextRecord
  \/ NextRecordFault
  \/ CursorExhausted
  \/ MigrateDocumentStep
  \/ ValidateCollectionStep


\* Nothing was logged by a validation.
NoReport == [kind |-> "none", count |-> 0, passed |-> -1]

\* Nothing of the Xronox migration is in use.
InitNoXronox ==
  /\ args = {}
  /\ resume = FALSE
  /\ validate = FALSE
  /\ sameDeployment = FALSE
  /\ sourceColl = [i \in RecordIds |-> NoDoc]
  /\ heads = [i \in RecordIds |-> NoDoc]
  /\ base = [i \in RecordIds |-> NoDoc]
  /\ storage = [k \in XKeys |-> NoObject]
  /\ counter = 0
  /\ uuids = 0
  /\ total = 0
  /\ migrated = 0
  /\ records = <<>>
  /\ cursor = 0
  /\ record = NoDoc
  /\ result = ""
  /\ payload = NoPayload
  /\ headDoc = NoDoc
  /\ validated = 0
  /\ failures = <<>>
  /\ report = NoReport
  /\ xlog = <<>>

(* --------------- insertBatch started on its own ----------------------- *)

\* The sequences of documents a page can be: ascending _id, no _id twice.
Batches(n) ==
  {SortById(S) : S \in {T \in SUBSET {Doc(k) : k \in Keys} :
                          T # {} /\ Cardinality(T) <= n}}

\* The states a destination collection can be in.
DestCollections ==
  {[exists |-> TRUE, docs |-> S, indexes |-> {"_id_"}] :
     S \in {T \in SUBSET AllDocs : UniqueIds(T)}}

InitBatch ==
  /\ InitNoXronox
  /\ pc = "insertMany"
  /\ entry = "insertBatch"
  /\ error = NoError
  /\ pageSize \in 1 .. MaxPageSize
  /\ faultsLeft = -1
  /\ faulty = FALSE
  /\ source = Nothing
  /\ \E coll \in DestCollections : dest = Only("db1", "c1", coll)
  /\ dbName = "db1"
  /\ collectionName = "c1"
  /\ conn = [source |-> "none", destination |-> "none"]
  /\ options = "undefined"
  /\ skipIndexes = FALSE
  /\ selectedDatabases = <<>>
  /\ conflictingDatabases = <<>>
  /\ conflictIdx = 0
  /\ resolution = NoResolution
  /\ overwrite = <<>>
  /\ skip = <<>>
  /\ lastDecision = ""
  /\ databases = <<>>
  /\ overwriteArg = <<>>
  /\ dbIdx = 0
  /\ sourceCollections = <<>>
  /\ destinationCollectionNames = {}
  /\ collIdx = 0
  /\ indexes = <<>>
  /\ indexIdx = 0
  /\ dest0 = dest
  /\ asked = <<>>
  /\ destOps = {}
  /\ calls = <<>>
  /\ totalDocs = 0
  /\ processedDocs = 0
  /\ lastId = Undefined
  /\ page \in Batches(pageSize)
  /\ documents = page
  /\ attempt = 1
  /\ docIdx = 0
  /\ docAttempt = 0
  /\ handed = page
  /\ bulkLog = <<>>
  /\ singleLog = <<>>
  /\ batchDelays = <<>>
  /\ docDelays = <<>>

SpecBatch == InitBatch /\ [][InsertBatchStep]_vars

(* ---------- insertBatch on its own, with the ping that fails ---------- *)

\* insertBatch called with a batch for a collection that is empty or holds
\* one document of another run; any number of faults may follow.
InitBatchPing ==
  /\ InitBatch
  /\ DestDocs \in {{}, {Old(1)}}

\* Every await of insertBatch settles: the driver resolves or rejects each
\* call and the timer of the sleep fires, so a step that can be taken is
\* taken.
SpecBatchPing ==
  /\ InitBatchPing
  /\ [][InsertBatchStep \/ PingFault]_vars
  /\ WF_vars(InsertBatchStep \/ PingFault)

(* -------------- cloneCollection started on its own -------------------- *)

\* The states a source collection can be in.
SourceCollections ==
  {[exists |-> TRUE, docs |-> S, indexes |-> {"_id_"}] :
     S \in SUBSET {Doc(k) : k \in Keys}}

\* cloneDatabases calls cloneCollection on a collection it has just created,
\* or, when the creation failed, on one that does not exist yet.
FreshCollections ==
  {NoColl, [exists |-> TRUE, docs |-> {}, indexes |-> {"_id_"}]}

InitCollection ==
  /\ InitNoXronox
  /\ pc = "count"
  /\ entry = "cloneCollection"
  /\ error = NoError
  /\ pageSize \in 1 .. MaxPageSize
  /\ faultsLeft = -1
  /\ faulty = FALSE
  /\ \E coll \in SourceCollections : source = Only("db1", "c1", coll)
  /\ \E coll \in FreshCollections : dest = Only("db1", "c1", coll)
  /\ dbName = "db1"
  /\ collectionName = "c1"
  /\ conn = [source |-> "none", destination |-> "none"]
  /\ options = "undefined"
  /\ skipIndexes = FALSE
  /\ selectedDatabases = <<>>
  /\ conflictingDatabases = <<>>
  /\ conflictIdx = 0
  /\ resolution = NoResolution
  /\ overwrite = <<>>
  /\ skip = <<>>
  /\ lastDecision = ""
  /\ databases = <<>>
  /\ overwriteArg = <<>>
  /\ dbIdx = 0
  /\ sourceCollections = <<>>
  /\ destinationCollectionNames = {}
  /\ collIdx = 0
  /\ indexes = <<>>
  /\ indexIdx = 0
  /\ dest0 = dest
  /\ asked = <<>>
  /\ destOps = {}
  /\ calls = <<>>
  /\ totalDocs = 0
  /\ processedDocs = 0
  /\ lastId = Undefined
  /\ page = <<>>
  /\ documents = <<>>
  /\ attempt = 0
  /\ docIdx = 0
  /\ docAttempt = 0
  /\ handed = <<>>
  /\ bulkLog = <<>>
  /\ singleLog = <<>>
  /\ batchDelays = <<>>
  /\ docDelays = <<>>

SpecCollection == InitCollection /\ [][CloneCollectionStep]_vars

(* --------------- cloneDatabases started on its own -------------------- *)

\* The source collections of the runs of cloneDatabases and runCli: none,
\* an empty one with no index of its own, one whose only document has the
\* _id null, and one with the documents 1 .. MaxKey and two indexes.
SourceShapes ==
  { NoColl,
    EmptyColl,
    [exists |-> TRUE, docs |-> {Doc(NullId)}, indexes |-> {"_id_", "a_1"}],
    [exists |-> TRUE, docs |-> {Doc(k) : k \in 1 .. MaxKey},
     indexes |-> {"_id_", "a_1", "b_1"}] }

\* The destination collections of those runs: none, or one the destination
\* held before the run.
DestShapes ==
  { NoColl,
    [exists |-> TRUE, docs |-> {Old(1)}, indexes |-> {"_id_", "old_1"}] }

\* The second collection of a run at the source: one document and one index
\* of its own.
OneDocument ==
  [exists |-> TRUE, docs |-> {Doc(1)}, indexes |-> {"_id_", "a_1"}]

\* The deployments of those runs: db1 holds up to two collections, db2 up
\* to one; c1 of db1 is of any shape, c2 of db1 and c1 of db2, where the
\* source holds them, hold one document of ordinary _id.
SourceWorlds ==
  {w \in [DbNames -> [CollNames -> SourceShapes \cup {OneDocument}]] :
     /\ w["db2"]["c2"] = NoColl
     /\ w["db2"]["c1"] \in {NoColl, OneDocument}
     /\ w["db1"]["c1"] \in SourceShapes
     /\ w["db1"]["c2"] \in {NoColl, OneDocument}}

\* The destination holds c2 of db1 only where it holds c1 of db1 too.
DestWorlds ==
  {w \in [DbNames -> [CollNames -> DestShapes]] :
     /\ w["db2"]["c2"] = NoColl
     /\ w["db1"]["c2"].exists => w["db1"]["c1"].exists}

InitEngine ==
  /\ error = NoError
  /\ faulty = FALSE
  /\ dbName = ""
  /\ collectionName = ""
  /\ sourceCollections = <<>>
  /\ destinationCollectionNames = {}
  /\ dbIdx = 0
  /\ collIdx = 0
  /\ indexes = <<>>
  /\ indexIdx = 0
  /\ totalDocs = 0
  /\ processedDocs = 0
  /\ lastId = Undefined
  /\ page = <<>>
  /\ documents = <<>>
  /\ attempt = 0
  /\ docIdx = 0
  /\ docAttempt = 0
  /\ dest0 = dest
  /\ asked = <<>>
  /\ destOps = {}
  /\ calls = <<>>
  /\ handed = <<>>
  /\ bulkLog = <<>>
  /\ singleLog = <<>>
  /\ batchDelays = <<>>
  /\ docDelays = <<>>

InitClone ==
  /\ InitNoXronox
  /\ pc = "nextDatabase"
  /\ entry = "cloneDatabases"
  /\ pageSize = 1
  /\ faultsLeft = MaxFaults
  /\ source \in SourceWorlds
  /\ dest \in DestWorlds
  /\ options = "undefined"
  /\ skipIndexes \in BOOLEAN
  /\ databases \in {<<"db1">>, <<"db1", "db2">>}
  /\ \E S \in SUBSET Range(databases) :
       overwriteArg = SelectSeq(databases, LAMBDA d : d \in S)
  /\ conn = [source |-> "open", destination |-> "open"]
  /\ selectedDatabases = <<>>
  /\ conflictingDatabases = <<>>
  /\ conflictIdx = 0
  /\ resolution = NoResolution
  /\ overwrite = <<>>
  /\ skip = <<>>
  /\ lastDecision = "Y"
  /\ InitEngine

SpecClone == InitClone /\ [][CloneDatabasesStep]_vars

(* ----------------------- cloneDatabases again ------------------------- *)

\* The history's note of a second call of cloneDatabases.
Again == [op |-> "cloneDatabases", db |-> "", coll |-> "", arg |-> "", ok |-> TRUE]

\* cloneDatabases was called a second time.
Rerunning == \E i \in DOMAIN calls : calls[i] = Again

\* After cloneDatabases rejected it is called again, once, on the same
\* clients and databases, with the overwrite list of the caller's choice: the
\* loop over the databases starts anew, the destination is as the first call
\* left it.
Rerun ==
  /\ pc = "thrown"
  /\ entry = "cloneDatabases"
  /\ ~Rerunning
  /\ \E S \in SUBSET Range(databases) :
       overwriteArg' = SelectSeq(databases, LAMBDA d : d \in S)
  /\ error' = NoError
  /\ dbIdx' = 0
  /\ dbName' = ""
  /\ collIdx' = 0
  /\ collectionName' = ""
  /\ sourceCollections' = <<>>
  /\ destinationCollectionNames' = {}
  /\ indexes' = <<>>
  /\ indexIdx' = 0
  /\ calls' = Append(calls, Again)
  /\ pc' = "nextDatabase"
  /\ UNCHANGED <<xVars, entry, pageSize, envVars, cliVars, databases, dest0, asked,
                 destOps, collVars, batchVars, batchHist, faultVars>>

\* cloneDatabases called on db1 alone, and called again when it rejected.
InitRerun ==
  /\ InitClone
  /\ databases = <<"db1">>
  /\ \A c \in CollNames : ~source["db2"][c].exists /\ ~dest["db2"][c].exists

SpecRerun == InitRerun /\ [][CloneDatabasesStep \/ Rerun]_vars

(* ------------------- migrateDocument on its own ------------------------ *)

\* Nothing of the copy engine is in use.
InitNoClone ==
  /\ pageSize = 1
  /\ source = Nothing
  /\ dest = Nothing
  /\ conn = [source |-> "open", destination |-> "none"]
  /\ options = "undefined"
  /\ skipIndexes = FALSE
  /\ selectedDatabases = <<>>
  /\ conflictingDatabases = <<>>
  /\ conflictIdx = 0
  /\ resolution = NoResolution
  /\ overwrite = <<>>
  /\ skip = <<>>
  /\ lastDecision = ""
  /\ databases = <<>>
  /\ overwriteArg = <<>>
  /\ InitEngine

\* record.metaIndexed where the record has one.
SomeMeta == [present |-> TRUE, tag |-> "m", id |-> Num(7)]

\* What earlier runs of the migration left of a record: nothing; a head
\* without storage key, which another writer of the head collection made;
\* the object alone, the head too, or the head in both collections, as a
\* run leaves them that was stopped after the upload, after the first
\* replaceOne, or not at all.
PriorKinds == {"none", "emptyHead", "uploaded", "headed", "migrated"}

HeadWithoutKey(i) ==
  [exists |-> TRUE, _id |-> i, id |-> Undef, meta |-> NoMeta,
   system |-> [present |-> TRUE, cv |-> 0, key |-> NoKey, size |-> 0,
               checksum |-> <<>>],
   body |-> ""]

\* The payload and the head an earlier run made of the record R[i]; its
\* randomUUID gave Uuid(-i) and its cv is the rank of the record among
\* those with a head.
PriorPayload(R, i) == PayloadOf(R[i], Uuid(0 - i))

PriorCv(kinds, i) ==
  Cardinality({j \in 1 .. i : kinds[j] \in {"headed", "migrated"}})

PriorHead(R, kinds, i) ==
  HeadDocOf(R[i], PriorPayload(R, i), PriorCv(kinds, i))

\* The collections, the bucket and the counter for the records R of the
\* application, with what earlier runs left of them.
World(R, kinds, same) ==
  LET b == [i \in RecordIds |->
              IF kinds[i] = "migrated" THEN PriorHead(R, kinds, i)
              ELSE IF same THEN R[i] ELSE NoDoc]
  IN [sourceColl |-> IF same THEN b ELSE R,
      base    |-> b,
      heads   |-> [i \in RecordIds |->
                     IF kinds[i] \in {"headed", "migrated"}
                     THEN PriorHead(R, kinds, i)
                     ELSE IF kinds[i] = "emptyHead" THEN HeadWithoutKey(i)
                     ELSE NoDoc],
      storage |-> [k \in XKeys |->
                     IF \E i \in RecordIds :
                          /\ k = JsonKey(XCollection, i, 0)
                          /\ kinds[i] \in {"uploaded", "headed", "migrated"}
                     THEN [exists |-> TRUE,
                           content |->
                             PriorPayload(R,
                               CHOOSE i \in RecordIds :
                                 k = JsonKey(XCollection, i, 0))]
                     ELSE NoObject],
      counter |-> PriorCv(kinds, MaxId)]

\* The world is the state of the target.
InWorld(w) ==
  /\ sourceColl = w.sourceColl
  /\ base = w.base
  /\ heads = w.heads
  /\ storage = w.storage
  /\ counter = w.counter

\* The records of a collection that holds the one record rec.
OnlyRecord(rec) == [i \in RecordIds |-> IF i = rec._id THEN rec ELSE NoDoc]

\* The kinds when only record i was met by earlier runs.
OnlyKind(i, kind) == [j \in RecordIds |-> IF j = i THEN kind ELSE "none"]

\* migrateDocument called for one record of any shape the model has, with
\* or without resume, on what earlier runs left of it.
InitDocument ==
  /\ pc = "migrateDocument"
  /\ entry = "migrateDocument"
  /\ faultsLeft = MaxFaults
  /\ InitNoClone
  /\ args = {}
  /\ resume \in BOOLEAN
  /\ validate = FALSE
  /\ sameDeployment \in BOOLEAN
  /\ \E i \in 0 .. 1, v \in IdValues, m \in {NoMeta, SomeMeta},
        kind \in PriorKinds :
       /\ i = 0 => kind = "none"
       /\ InWorld(World(OnlyRecord(SourceRecord(i, v, m)),
                        OnlyKind(i, kind), sameDeployment))
       /\ record = sourceColl[i]
  /\ uuids = 0
  /\ total = 0
  /\ migrated = 0
  /\ records = <<>>
  /\ cursor = 0
  /\ result = ""
  /\ payload = NoPayload
  /\ headDoc = NoDoc
  /\ validated = 0
  /\ failures = <<>>
  /\ report = NoReport
  /\ xlog = <<>>

SpecDocument == InitDocument /\ [][MigrateDocumentStep]_vars

(* ---------------- migrateCollection on its own, and again ---------------- *)

\* The business id of the record with _id i: the odd ones have none.
LegacyId(i) == IF i % 2 = 1 THEN Undef ELSE Str(<<"a">>)

\* A source collection of the records with _id 1 .. n, and with _id 0 too
\* where zero.
CollectionOf(n, zero) ==
  [i \in RecordIds |->
     IF (i = 0 /\ zero) \/ (1 <= i /\ i <= n)
     THEN SourceRecord(i, LegacyId(i), NoMeta)
     ELSE NoDoc]

\* No earlier run has met any record.
Untouched == [i \in RecordIds |-> "none"]

\* The locals of migrateCollection and what it calls, before it starts.
InitLocals ==
  /\ total = 0
  /\ migrated = 0
  /\ records = <<>>
  /\ cursor = 0
  /\ record = NoDoc
  /\ result = ""
  /\ payload = NoPayload
  /\ headDoc = NoDoc
  /\ validated = 0
  /\ failures = <<>>
  /\ report = NoReport

\* migrateCollection called on a collection no run has met, of MaxId
\* records at most, and of fewer when the heads are validated as well
\* (validateCollection has its larger collections in InitValidate).
InitMigrate ==
  /\ pc = "countDocuments"
  /\ entry = "migrateCollection"
  /\ faultsLeft = MaxFaults
  /\ InitNoClone
  /\ args = {}
  /\ resume \in BOOLEAN
  /\ validate \in BOOLEAN
  /\ sameDeployment \in BOOLEAN
  /\ \E n \in 0 .. MaxId, zero \in BOOLEAN :
       /\ zero => n < MaxId
       /\ validate => n + (IF zero THEN 1 ELSE 0) < MaxId
       /\ InWorld(World(CollectionOf(n, zero), Untouched, sameDeployment))
  /\ uuids = 0
  /\ InitLocals
  /\ xlog = <<>>

\* The second run has started.
StartedAgain == \E i \in DOMAIN xlog : xlog[i].op = "again"

\* The command is run a second time once the first run has ended, with or
\* without --resume: a new process, on what the first run left.
MigrateAgain ==
  /\ entry = "migrateCollection"
  /\ pc \in {"done", "thrown"}
  /\ ~StartedAgain
  /\ xlog' = Append(xlog, [op |-> "again", id |-> 0, ok |-> error = NoError])
  /\ resume' \in BOOLEAN
  /\ error' = NoError
  /\ pc' = "countDocuments"
  /\ total' = 0
  /\ migrated' = 0
  /\ records' = <<>>
  /\ cursor' = 0
  /\ record' = NoDoc
  /\ result' = ""
  /\ payload' = NoPayload
  /\ headDoc' = NoDoc
  /\ validated' = 0
  /\ failures' = <<>>
  /\ report' = NoReport
  /\ UNCHANGED <<entry, cloneVars, faultVars, args, validate, sameDeployment,
                 targetVars, uuids>>

SpecMigrate ==
  InitMigrate /\ [][MigrateCollectionStep \/ MigrateAgain]_vars


(* --------------------- validateCollection on its own --------------------- *)

\* What happened to the object of a record after the migration, out of
\* band: nothing, it was deleted, its content was changed, it was cut.
Damages == {"intact", "deleted", "corrupted", "truncated"}

DamagedObject(object, damage) ==
  IF ~object.exists \/ damage = "intact" THEN object
  ELSE IF damage = "deleted" THEN NoObject
  ELSE IF damage = "corrupted"
  THEN [object EXCEPT !.content.body = "garbled"]
  ELSE [object EXCEPT !.content.body = ""]

\* The bucket after the damages.
DamagedStorage(objects, damage) ==
  [k \in XKeys |-> DamagedObject(objects[k], damage[k[2]])]

\* validateCollection called on the heads a migration of n records left,
\* some of them heads without storage key, after damages to the bucket.
InitValidate ==
  /\ pc = "validate"
  /\ entry = "validateCollection"
  /\ faultsLeft = MaxFaults
  /\ InitNoClone
  /\ args = {}
  /\ resume = FALSE
  /\ validate = TRUE
  /\ sameDeployment \in BOOLEAN
  /\ \E n \in 0 .. MaxId,
        kinds \in [RecordIds -> {"none", "emptyHead", "migrated"}],
        damage \in [RecordIds -> Damages] :
       /\ \A i \in RecordIds :
            /\ kinds[i] = "none" <=> (i = 0 \/ i > n)
            /\ kinds[i] # "migrated" => damage[i] = "intact"
       /\ LET w == World(CollectionOf(n, FALSE), kinds, sameDeployment)
          IN InWorld([w EXCEPT !.storage = DamagedStorage(@, damage)])
  /\ uuids = 0
  /\ InitLocals
  /\ xlog = <<>>

SpecValidate == InitValidate /\ [][ValidateCollectionStep]_vars

(* ------------------------ runCli started ------------------------------ *)

\* The deployments of the runs of runCli: the sources of the runs of
\* cloneDatabases, and destinations that hold at most c1 in each database.
CliSourceWorlds == SourceWorlds

CliDestWorlds == {w \in DestWorlds : ~w["db1"]["c2"].exists}

\* runCli after promptMongoUri, about to connect to the source.
Init ==
  /\ InitNoXronox
  /\ pc = "connectSource"
  /\ entry = "runCli"
  /\ pageSize = 1
  /\ faultsLeft = MaxFaults
  /\ source \in CliSourceWorlds
  /\ dest \in CliDestWorlds
  /\ options \in {"undefined", "true", "false"}
  /\ skipIndexes = FALSE
  /\ databases = <<>>
  /\ overwriteArg = <<>>
  /\ conn = [source |-> "none", destination |-> "none"]
  /\ selectedDatabases = <<>>
  /\ conflictingDatabases = <<>>
  /\ conflictIdx = 0
  /\ resolution = NoResolution
  /\ overwrite = <<>>
  /\ skip = <<>>
  /\ lastDecision = ""
  /\ InitEngine

Next == RunCliStep

Spec == Init /\ [][Next]_vars

(* ----------------------- the command started -------------------------- *)

\* The flags main looks for in process.argv.
Flags == {"--skip-indexes", "--xronox"}

\* `const skipIndexes = args.includes("--skip-indexes")`,
\* `const xronoxMode = args.includes("--xronox")`,
\* `await runCli({ skipIndexes, xronoxMode })`: runCli reads
\* options.skipIndexes and nothing else of its options, and asks for the
\* source URI before it connects.
Main ==
  /\ pc = "main"
  /\ options' = IF "--skip-indexes" \in args THEN "true" ELSE "false"
  /\ pc' = "connectSource"
  /\ UNCHANGED <<xVars, entry, error, pageSize, envVars, skipIndexes,
                 selectedDatabases, conflictingDatabases, conflictIdx,
                 resolution, overwrite, skip, lastDecision, conn, dbVars,
                 indexVars, dest0, asked, destOps, collVars, batchVars,
                 histVars, faultVars>>

\* bin/mongodb-cloner started with any of the flags.
InitMain ==
  /\ pc = "main"
  /\ entry = "runCli"
  /\ pageSize = 1
  /\ faultsLeft = MaxFaults
  /\ source \in CliSourceWorlds
  /\ dest \in CliDestWorlds
  /\ options = "undefined"
  /\ skipIndexes = FALSE
  /\ databases = <<>>
  /\ overwriteArg = <<>>
  /\ conn = [source |-> "none", destination |-> "none"]
  /\ selectedDatabases = <<>>
  /\ conflictingDatabases = <<>>
  /\ conflictIdx = 0
  /\ resolution = NoResolution
  /\ overwrite = <<>>
  /\ skip = <<>>
  /\ lastDecision = ""
  /\ InitEngine
  /\ args \in SUBSET Flags
  /\ resume = FALSE
  /\ validate = FALSE
  /\ sameDeployment = FALSE
  /\ InWorld(World(CollectionOf(0, FALSE), Untouched, FALSE))
  /\ uuids = 0
  /\ InitLocals
  /\ xlog = <<>>

SpecMain == InitMain /\ [][Main \/ RunCliStep]_vars

(* ============================== claims ================================ *)

IsPrefix(s, t) == Len(s) <= Len(t) /\ s = SubSeq(t, 1, Len(s))

NonDecreasing(s) == \A i \in 1 .. Len(s) - 1 : s[i] <= s[i + 1]

\* C1 (pagination completeness): in a run of cloneCollection in which the
\* environment raised no fault, the documents handed to insertBatch so far
\* are the first documents of the source collection in ascending _id order,
\* each once, and when cloneCollection has returned they are all of them.
C1_PaginationCompleteness ==
  ~faulty =>
    /\ IsPrefix(handed, SortById(SourceDocs))
    /\ pc = "done" => handed = SortById(SourceDocs)

\* C3 (no silent drop): when insertBatch has returned normally every document
\* of the batch is in the destination collection; a run of insertBatch that
\* can take no further step has returned or has thrown an error.
C3_NoSilentDrop ==
  /\ pc = "done" => Range(page) \subseteq DestDocs
  /\ pc = "thrown" => error # NoError
  /\ ~ENABLED InsertBatchStep => pc \in {"done", "thrown"}

\* C3 witness: insertBatch returned after the fallback wrote two documents
\* one at a time.
C3_Witness ==
  /\ pc = "done"
  /\ Len(page) = 2
  /\ Len(singleLog) >= 2
  /\ faulty

\* C4 (bulk attempts): insertMany is called at most 7 times for one batch,
\* every call sends the entire batch, and insertIndividually starts only
\* after the 7th insertMany failed or one failed with a non-network fault.
C4_BulkAttempts ==
  /\ Len(bulkLog) <= 7
  /\ \A i \in 1 .. Len(bulkLog) : bulkLog[i].sent = page
  /\ (pc = "insertOne" \/ singleLog # <<>>) =>
       /\ bulkLog # <<>>
       /\ \/ Len(bulkLog) = 7 /\ bulkLog[7].outcome = "network"
          \/ bulkLog[Len(bulkLog)].outcome = "other"

\* C4 witness: seven network faults in a row, then the fallback.
C4_Witness ==
  /\ pc = "insertOne"
  /\ Len(bulkLog) = 7
  /\ \A i \in 1 .. 7 : bulkLog[i].outcome = "network"

\* The delays min(20000, 500 k^2) for k = 1 .. 6.
ExpectedDelays == <<500, 2000, 4500, 8000, 12500, 18000>>

\* The insertOne calls made for the document the fallback is at.
CurrentDocCalls == SelectSeq(singleLog, LAMBDA r : r.doc = docIdx)

\* C5 (backoff): the delays slept for one batch, and for one document of the
\* fallback, are 500 k^2 capped at 20000 for k = 1, 2, ...: non-decreasing,
\* never above 20000, at most MAX_RETRIES - 1 of them, and none is slept
\* after a success.
C5_Backoff ==
  /\ IsPrefix(batchDelays, ExpectedDelays)
  /\ IsPrefix(docDelays, ExpectedDelays)
  /\ NonDecreasing(batchDelays) /\ NonDecreasing(docDelays)
  /\ \A i \in 1 .. Len(batchDelays) : batchDelays[i] <= 20000
  /\ \A i \in 1 .. Len(docDelays) : docDelays[i] <= 20000
  /\ \A i \in 1 .. Len(batchDelays) : bulkLog[i].outcome = "network"
  /\ \A i \in 1 .. Len(docDelays) : CurrentDocCalls[i].outcome = "network"
  /\ \A i \in 1 .. Len(bulkLog) :
       bulkLog[i].outcome = "ok" => Len(batchDelays) < i
  /\ \A i \in 1 .. Len(CurrentDocCalls) :
       CurrentDocCalls[i].outcome = "ok" => Len(docDelays) < i

\* C5 witness: six delays slept for the batch and six for a document.
C5_Witness ==
  /\ Len(batchDelays) = 6
  /\ Len(docDelays) = 6
  /\ batchDelays[6] = 18000

\* C6 (non-network bulk fault): an insertMany that failed with a non-network
\* fault is the last insertMany of its batch, no delay is slept after it,
\* and the run is in the per-document fallback or past it.
C6_NoBatchRetryOnOtherFault ==
  \A i \in 1 .. Len(bulkLog) :
    bulkLog[i].outcome = "other" =>
      /\ i = Len(bulkLog)
      /\ Len(batchDelays) = i - 1
      /\ pc \in {"insertOne", "done", "thrown"}

\* C6 witness: the second insertMany failed with a non-network fault and the
\* fallback is about to insert the first document.
C6_Witness ==
  /\ Len(bulkLog) = 2
  /\ bulkLog[1].outcome = "network"
  /\ bulkLog[2].outcome = "other"
  /\ pc = "insertOne"
  /\ singleLog = <<>>

\* The run of runCli is in its finally block or has returned.
Ending == pc \in {"finally", "closeDestination", "exit"}

\* C2 (no loss, no duplicate): when cloneDatabases has returned without
\* throwing, for every source collection of a cloned database that did not
\* exist at the destination before the run, the documents the destination
\* holds under that name are exactly those of the source collection,
\* whatever faults were raised.
C2_ExactCopy ==
  (pc = "done" /\ error = NoError) =>
    \A d \in Range(databases) : \A c \in CollNames :
      (source[d][c].exists /\ ~dest0[d][c].exists) =>
        dest[d][c].docs = source[d][c].docs

\* C2 witness: cloneDatabases returned after a bulk insert of the last page
\* of a new collection failed on the network and was sent again.
C2_Witness ==
  /\ pc = "done"
  /\ error = NoError
  /\ batchDelays # <<>>
  /\ ~dest0[dbName][collectionName].exists
  /\ Cardinality(source[dbName][collectionName].docs) = MaxKey
  /\ dest[dbName][collectionName].docs = source[dbName][collectionName].docs

\* C7 (fatal failure): once an error was thrown, and so once one survived
\* the per-document fallback, no step of the run writes to the destination,
\* reads or hands over a further page, lists or creates an index, or moves to
\* another collection or database; runCli only closes its connections.
C7_FatalFailure ==
  [][error # NoError =>
       /\ dest' = dest
       /\ destOps' = destOps
       /\ page' = page
       /\ handed' = handed
       /\ lastId' = lastId
       /\ indexes' = indexes
       /\ indexIdx' = indexIdx
       /\ collIdx' = collIdx
       /\ dbIdx' = dbIdx
       /\ pc' \in {"closeDestination", "exit"}]_vars

\* C7 witness: runCli returned after an insertOne of the fallback threw on
\* the first page of the first collection of the first database, with a
\* second page, a second collection and a second database still to copy.
C7_Witness ==
  /\ pc = "exit"
  /\ error # NoError
  /\ singleLog # <<>>
  /\ singleLog[Len(singleLog)].outcome = "other"
  /\ faulty
  /\ Len(handed) = 1
  /\ Cardinality(source[dbName][collectionName].docs) = MaxKey
  /\ collIdx = 1 /\ Len(sourceCollections) = 2
  /\ dbIdx = 1 /\ Len(databases) = 2
  /\ "createIndex" \notin destOps

\* C8 (conflict abort atomicity): once the user chose cancel for a
\* conflicting database the run is ending, cloneDatabases was not called and
\* the destination is as it was: no drop, no collection created, no insert,
\* no index created, for any database.
C8_AbortAtomicity ==
  resolution.cancelled =>
    /\ Ending
    /\ databases = <<>>
    /\ destOps = {}
    /\ dest = dest0

\* C8 witness: two databases selected, overwrite chosen for the first,
\* cancel for the second, and runCli returned.
C8_Witness ==
  /\ pc = "exit"
  /\ resolution.cancelled
  /\ Len(selectedDatabases) = 2
  /\ Len(resolution.overwrite) = 1
  /\ Len(asked) = 2

\* The conflict set was computed.
Resolving == asked # <<>> \/ pc \in {"conflict", "sure"} \/ databases # <<>>

\* C9 (conflict set and order): the conflicting databases are the selected
\* ones the destination held, in selection order; the decisions are asked
\* for them in that order, one prompt each; after a cancel no further
\* decision is asked; promptToBeSure comes after a decision for each of them.
C9_ConflictOrder ==
  /\ Resolving =>
       conflictingDatabases =
         SelectSeq(selectedDatabases, LAMBDA name : DbExists(dest0, name))
  /\ asked = SubSeq(conflictingDatabases, 1, Len(asked))
  /\ Len(asked) = Len(resolution.overwrite) + Len(resolution.skip)
                    + (IF resolution.cancelled THEN 1 ELSE 0)
  /\ pc = "conflict" =>
       ~resolution.cancelled /\ Len(asked) < Len(conflictingDatabases)
  /\ resolution.cancelled => Ending
  /\ (pc = "sure" \/ databases # <<>>) =>
       ~resolution.cancelled /\ asked = conflictingDatabases

\* C9 witness: db2 then db1 selected, both at the destination, cancel
\* chosen at the first prompt, and runCli returned.
C9_Witness ==
  /\ pc = "exit"
  /\ conflictingDatabases = <<"db2", "db1">>
  /\ resolution.cancelled
  /\ asked = <<"db2">>

\* C10 (decisions before mutation): cloneDatabases is called, and the
\* destination written to, only after a decision was given for every
\* conflicting database, none of them cancel, and promptToBeSure returned
\* "Y"; when it returned "N" the run ends, cloneDatabases is not called and
\* the destination is as it was.
C10_ConfirmedBeforeMutation ==
  /\ (databases # <<>> \/ destOps # {} \/ dest # dest0) =>
       /\ lastDecision = "Y"
       /\ ~resolution.cancelled
       /\ asked = conflictingDatabases
       /\ Len(resolution.overwrite) + Len(resolution.skip) =
            Len(conflictingDatabases)
  /\ lastDecision \in {"", "Y", "N"}
  /\ lastDecision = "N" =>
       /\ Ending
       /\ databases = <<>>
       /\ destOps = {}
       /\ dest = dest0

\* C10 witness: a database was dropped after decisions were given for two
\* conflicting databases and the confirmation was Y.
C10_Witness ==
  /\ "dropDatabase" \in destOps
  /\ Len(asked) = 2
  /\ lastDecision = "Y"

\* The calls that write to the destination.
WriteOps ==
  {"dropDatabase", "drop", "createCollection", "insertMany", "insertOne",
   "createIndex"}

\* The positions of the history with a call of one of the kinds ops on
\* database d.
CallsOn(d, ops) ==
  {i \in DOMAIN calls : calls[i].db = d /\ calls[i].op \in ops}

\* C11 (drop before recreate, once): dropDatabase is called only for a
\* database with an overwrite decision, at most once for each, before every
\* other write to that database; no collection of such a database is created
\* or written without the drop before it; and when cloneDatabases has
\* returned each such database it was given was dropped exactly once.
C11_DropFirstOnce ==
  /\ \A d \in DbNames :
       LET drops  == CallsOn(d, {"dropDatabase"})
           writes == CallsOn(d, WriteOps)
       IN /\ drops # {} => d \in Range(overwriteArg)
          /\ Cardinality(drops) <= 1
          /\ \A i \in drops : \A j \in writes : i <= j
          /\ (d \in Range(overwriteArg) /\ writes # {}) => drops # {}
  /\ pc = "done" =>
       \A d \in Range(overwriteArg) \cap Range(databases) :
         Cardinality(CallsOn(d, {"dropDatabase"})) = 1

\* C11 witness: cloneDatabases returned after two databases that held
\* collections were dropped and collections were created in both.
C11_Witness ==
  /\ pc = "done"
  /\ \A d \in DbNames :
       /\ DbExists(dest0, d)
       /\ CallsOn(d, {"dropDatabase"}) # {}
       /\ CallsOn(d, {"createCollection"}) # {}

\* What copying database d into a destination that holds nothing of it
\* leaves there: the source's collections with the source's documents, and
\* the source's indexes unless skipIndexes.
Copy(d) ==
  [c \in CollNames |->
     IF source[d][c].exists
     THEN [exists |-> TRUE,
           docs |-> source[d][c].docs,
           indexes |-> IF skipIndexes
                       THEN {"_id_"} ELSE source[d][c].indexes]
     ELSE NoColl]

\* C12 (idempotent overwrite): in a run without fault, once a database with
\* an overwrite decision was dropped nothing of what the destination held of
\* it is left; and when cloneDatabases has returned, a database that was
\* overwritten and a database the destination did not hold before the run
\* are both the copy of the source database: same collections, same
\* documents, same indexes.
C12_IdempotentOverwrite ==
  ~faulty =>
    /\ \A d \in DbNames :
         CallsOn(d, {"dropDatabase"}) # {} =>
           \A c \in CollNames :
             /\ dest[d][c].docs \subseteq source[d][c].docs
             /\ dest[d][c].indexes \subseteq
                  source[d][c].indexes \cup {"_id_"}
    /\ pc = "done" =>
         \A d \in Range(databases) :
           (d \in Range(overwriteArg) \/ ~DbExists(dest0, d)) =>
             dest[d] = Copy(d)

\* C12 witness: a fault-free run returned after it overwrote db1, which
\* held two collections at the destination and holds only c1, with
\* documents, at the source.
C12_Witness ==
  /\ pc = "done"
  /\ ~faulty
  /\ "db1" \in Range(overwriteArg)
  /\ dest0["db1"]["c1"].exists /\ dest0["db1"]["c2"].exists
  /\ source["db1"]["c1"].docs # {} /\ ~source["db1"]["c2"].exists
  /\ dest["db1"] = Copy("db1")

\* The positions of the history with a call of one of the kinds ops on
\* collection c of database d.
CallsOnCollection(d, c, ops) ==
  {i \in CallsOn(d, ops) : calls[i].coll = c}

\* C13 (skip correctness): a collection the destination held before the
\* run, in a database without overwrite decision, is at every moment of the
\* run as it was: same documents, same indexes, and no write was sent to it
\* or to its database as a whole.
C13_SkipUntouched ==
  \A d \in DbNames \ Range(overwriteArg) : \A c \in CollNames :
    dest0[d][c].exists =>
      /\ dest[d][c] = dest0[d][c]
      /\ CallsOnCollection(d, c, WriteOps) = {}
      /\ CallsOn(d, {"dropDatabase"}) = {}

\* C13 witness: cloneDatabases returned after it went through db1 without
\* overwrite: c1, which the destination held and the source holds with
\* documents, was skipped, and c2 was copied.
C13_Witness ==
  /\ pc = "done"
  /\ "db1" \in Range(databases) \ Range(overwriteArg)
  /\ dest0["db1"]["c1"].exists
  /\ source["db1"]["c1"].docs # {}
  /\ dest["db1"]["c1"] = dest0["db1"]["c1"]
  /\ CallsOnCollection("db1", "c2", {"createCollection"}) # {}

\* C14 (what runCli hands over): when runCli has called cloneDatabases, the
\* databases are the selected ones without those the user chose to skip, in
\* selection order; the overwrite list is the databases the user chose to
\* overwrite, all of them among the databases; skipIndexes is the option,
\* false when it was not given; and no call is ever made on a database that
\* is not among the databases, so none on a skipped one.
C14_HandedOver ==
  /\ databases # <<>> =>
       /\ databases =
            SelectSeq(selectedDatabases,
                      LAMBDA name : name \notin Range(resolution.skip))
       /\ overwriteArg = resolution.overwrite
       /\ Range(overwriteArg) \subseteq Range(databases)
       /\ skipIndexes = (options = "true")
       /\ Range(resolution.skip) \cap Range(databases) = {}
  /\ \A i \in DOMAIN calls : calls[i].db \in Range(databases)
  /\ \A d \in Range(resolution.skip) : dest[d] = dest0[d]

\* C14 witness: db2 and db1 were selected, skip chosen for db2 and overwrite
\* for db1, the option was not given, and runCli returned after the copy.
C14_Witness ==
  /\ pc = "exit"
  /\ error = NoError
  /\ selectedDatabases = <<"db2", "db1">>
  /\ resolution.skip = <<"db2">>
  /\ databases = <<"db1">>
  /\ overwriteArg = <<"db1">>
  /\ options = "undefined"
  /\ CallsOn("db1", {"createCollection"}) # {}

\* The collection c of database d was copied: cloneCollection read its last,
\* empty page.
Copied(d, c) ==
  \E i \in CallsOnCollection(d, c, {"find"}) : calls[i].arg = "empty"

\* C15 (skipIndexes): with skipIndexes the run never lists the indexes of a
\* source collection and never creates an index at the destination; without
\* it syncIndexes is called at most once for a collection, only for one that
\* was copied, and when cloneDatabases has returned it was called for every
\* collection that was copied.
C15_SkipIndexes ==
  /\ skipIndexes =>
       /\ pc \notin {"indexes", "createIndex"}
       /\ \A i \in DOMAIN calls : calls[i].op \notin {"indexes", "createIndex"}
       /\ "createIndex" \notin destOps
       /\ \A d \in DbNames : \A c \in CollNames :
            dest[d][c].indexes \subseteq dest0[d][c].indexes \cup {"_id_"}
  /\ ~skipIndexes =>
       \A d \in DbNames : \A c \in CollNames :
         LET listed == CallsOnCollection(d, c, {"indexes"})
             synced == CallsOnCollection(d, c, {"indexes", "createIndex"})
         IN /\ Cardinality(listed) <= 1
            /\ synced # {} => Copied(d, c)
            /\ (pc = "done" /\ Copied(d, c)) => listed # {}

\* C15 witness: with skipIndexes cloneDatabases returned after it copied a
\* collection that has two indexes of its own at the source.
C15_Witness ==
  /\ pc = "done"
  /\ skipIndexes
  /\ Copied("db1", "c1")
  /\ "b_1" \in source["db1"]["c1"].indexes
  /\ dest["db1"]["c1"].docs = source["db1"]["c1"].docs
  /\ dest["db1"]["c1"].indexes = {"_id_"}

\* The indexes of its own the source collection c of d has, in the order
\* indexes() gives them.
OwnIndexes(d, c) ==
  SelectSeq(IndexOrder,
            LAMBDA n : n # "_id_" /\ n \in source[d][c].indexes)

\* The names given to createIndex on collection c of d, in call order.
IndexesTried(d, c) ==
  LET tried == SelectSeq(calls, LAMBDA r : r.op = "createIndex"
                                           /\ r.db = d /\ r.coll = c)
  IN [i \in DOMAIN tried |-> tried[i].arg]

\* C16 (index failures are not fatal): createIndex is never called for
\* "_id_"; the indexes tried for a collection are its source indexes in
\* order, each once, whether or not an earlier one failed, and all of them
\* once syncIndexes has moved on; and a step at createIndex, failed or not,
\* throws nothing and goes on to the next index or the next collection.
C16_IndexFailuresNotFatal ==
  /\ [](\A d \in DbNames : \A c \in CollNames :
          /\ \A i \in CallsOnCollection(d, c, {"createIndex"}) :
               calls[i].arg # "_id_"
          /\ IsPrefix(IndexesTried(d, c), OwnIndexes(d, c))
          /\ (/\ CallsOnCollection(d, c, {"indexes"}) # {}
              /\ error = NoError
              /\ <<d, c>> # <<dbName, collectionName>>
                 \/ pc \notin {"indexes", "createIndex"}) =>
               IndexesTried(d, c) = OwnIndexes(d, c))
  /\ [][pc = "createIndex" =>
          /\ error' = NoError
          /\ pc' \in {"createIndex", "nextCollection"}]_vars

\* C16 witness: cloneDatabases returned; for c1 of db1 the creation of a_1
\* failed, that of b_1 followed, and a collection was copied after it.
C16_Witness ==
  /\ pc = "done"
  /\ \E i, j \in CallsOnCollection("db1", "c1", {"createIndex"}) :
       /\ i < j
       /\ calls[i].arg = "a_1" /\ ~calls[i].ok
       /\ calls[j].arg = "b_1" /\ calls[j].ok
       /\ \E k \in DOMAIN calls :
            k > j /\ calls[k].op = "createCollection"

\* The position of x in the sequence s, 0 when it is not there.
Position(s, x) ==
  IF \E i \in DOMAIN s : s[i] = x
  THEN CHOOSE i \in DOMAIN s : s[i] = x ELSE 0

\* The call r comes no later than the call q in the order of the databases
\* given and, within a database, of the collections as the source lists
\* them, a call on the database itself coming before those on its
\* collections.
InEnumerationOrder(r, q) ==
  \/ r.db = q.db /\ r.coll = q.coll
  \/ Position(databases, r.db) < Position(databases, q.db)
  \/ /\ r.db = q.db
     /\ Position(CollOrder, r.coll) < Position(CollOrder, q.coll)

\* C17 (order of the copy): when a page is about to be read, every document
\* of the pages read before is at the destination; the documents of the
\* pages insertBatch returned for are in strictly ascending _id order; the
\* call before indexes() or a createIndex is the read of the collection's
\* last, empty page or an earlier call of syncIndexes for it, and the call
\* after it on the same collection is a createIndex, so that no read and no
\* insert follows; and the calls go through the databases in the order
\* given and through the collections in the order the source lists them.
C17_CopyOrder ==
  /\ pc = "find" => Range(handed) \subseteq DestDocs
  /\ \A i, j \in 1 .. processedDocs :
       i < j => handed[i]._id < handed[j]._id
  /\ \A i \in DOMAIN calls :
       calls[i].op \in {"indexes", "createIndex"} =>
         /\ i > 1
         /\ calls[i - 1].db = calls[i].db
         /\ calls[i - 1].coll = calls[i].coll
         /\ \/ calls[i - 1].op = "find" /\ calls[i - 1].arg = "empty"
            \/ calls[i - 1].op \in {"indexes", "createIndex"}
         /\ (/\ i < Len(calls)
             /\ calls[i + 1].db = calls[i].db
             /\ calls[i + 1].coll = calls[i].coll) =>
              calls[i + 1].op = "createIndex"
  /\ \A i \in 1 .. Len(calls) - 1 :
       InEnumerationOrder(calls[i], calls[i + 1])

\* C17 witness: runCli returned after c1 of db1 was copied in two pages and
\* its index a_1 created, and c2 of db1 was copied after it.
C17_Witness ==
  /\ pc = "exit"
  /\ error = NoError
  /\ Cardinality(dest["db1"]["c1"].docs) = MaxKey
  /\ "a_1" \in dest["db1"]["c1"].indexes
  /\ ~dest0["db1"]["c1"].exists
  /\ Copied("db1", "c2")
  /\ processedDocs = Cardinality(source["db1"]["c2"].docs)

\* The states of a client that was never connected or that close() was
\* called on, `closeFailed` being a close() that rejected.
Released == {"none", "closed", "closeFailed"}

\* C18 (connections released): when runCli has returned, however the run
\* went, close() was called on every client the run connected, the source's
\* and the destination's; a close() of the source that rejected has not kept
\* the destination from being closed.
C18_ConnectionsClosed ==
  pc = "exit" =>
    /\ conn.source \in Released
    /\ conn.destination \in Released

\* C19 (pages): every page find produces for cloneCollection holds between 1
\* and PAGE_SIZE documents in strictly ascending _id order, the first of them
\* with an _id greater than that of the last document of the page before;
\* every page before it was full; and when cloneCollection has returned the
\* count of processed documents is the number of documents of the source
\* collection.
C19_Pages ==
  /\ (pc # "count" /\ page # <<>>) =>
       LET before == Len(handed) - Len(page) IN
         /\ Len(page) \in 1 .. pageSize
         /\ \A i \in 1 .. Len(page) - 1 : page[i]._id < page[i + 1]._id
         /\ before > 0 => handed[before]._id < page[1]._id
         /\ before % pageSize = 0
  /\ pc = "done" => processedDocs = Cardinality(SourceDocs)

\* The place in the history of the second call of cloneDatabases.
AgainAt == CHOOSE i \in DOMAIN calls : calls[i] = Again

\* The collections the first call of cloneDatabases read a page of and
\* rejected before it had read them to their end.
FailedPartWay ==
  {dc \in DbNames \X CollNames :
     /\ \E i \in 1 .. AgainAt - 1 :
          /\ <<calls[i].db, calls[i].coll>> = dc
          /\ calls[i].op = "find"
          /\ calls[i].arg = "page"
     /\ ~\E i \in 1 .. AgainAt - 1 :
          /\ <<calls[i].db, calls[i].coll>> = dc
          /\ calls[i].op = "find"
          /\ calls[i].arg = "empty"}

\* C20 (re-run): when cloneDatabases, called again after a call that
\* rejected part-way through a collection, has returned, the second call has
\* read that collection from its first page to its end and the destination
\* collection holds every document of the source collection.
C20_RerunRecopies ==
  (pc = "done" /\ Rerunning) =>
    \A dc \in FailedPartWay :
      /\ \E i \in AgainAt + 1 .. Len(calls) :
           /\ <<calls[i].db, calls[i].coll>> = dc
           /\ calls[i].op = "find"
           /\ calls[i].arg = "empty"
      /\ source[dc[1]][dc[2]].docs \subseteq dest[dc[1]][dc[2]].docs

\* C30 as stated (non-network fault in the fallback): an insertOne that
\* failed with a non-network fault before MAX_RETRIES attempts were made for
\* its document is tried again: insertIndividually has not thrown.
C30_NonNetworkRetried ==
  \A i \in 1 .. Len(CurrentDocCalls) :
    (CurrentDocCalls[i].outcome = "other" /\ i < MAX_RETRIES) =>
      pc # "thrown"

\* C30 as amended: an insertOne that failed with a non-network fault is the
\* last call made for its document, no delay was slept after it, and
\* insertIndividually has thrown that error; when insertIndividually has
\* thrown a network error, MAX_RETRIES attempts were made for the document.
C30_NonNetworkFatalAtOnce ==
  /\ \A i \in 1 .. Len(CurrentDocCalls) :
       CurrentDocCalls[i].outcome = "other" =>
         /\ i = Len(CurrentDocCalls)
         /\ Len(docDelays) = i - 1
         /\ pc = "thrown"
         /\ ~isNetworkError(error)
  /\ (pc = "thrown" /\ CurrentDocCalls # <<>> /\ isNetworkError(error)) =>
       /\ Len(CurrentDocCalls) = MAX_RETRIES
       /\ Len(docDelays) = MAX_RETRIES - 1

\* C30 witness: the third insertOne of a document failed with a non-network
\* fault after two network faults, and insertIndividually has thrown.
C30_Witness ==
  /\ pc = "thrown"
  /\ Len(CurrentDocCalls) = 3
  /\ CurrentDocCalls[1].outcome = "network"
  /\ CurrentDocCalls[2].outcome = "network"
  /\ CurrentDocCalls[3].outcome = "other"
  /\ docDelays = <<500, 2000>>

\* A string of blanks, the empty string included.
Blank(v) == v.type = "string" /\ \A i \in DOMAIN v.str : v.str[i] = " "

\* An identifier that is missing, falsy or a string of blanks.
Unusable(v) ==
  \/ v.type \in {"undefined", "null"}
  \/ v = Bool(FALSE)
  \/ v = Num(0)
  \/ Blank(v)

\* migrateDocument has uploaded the payload of the record at hand.
Uploaded ==
  \/ pc \in {"incCv", "replaceHead", "replaceBase"}
  \/ result = "idHex"

\* C24 (business identifier): once migrateDocument has uploaded a payload,
\* the object under the record's key is that payload and its id is not
\* missing, falsy or blank; it is the record's id when that is usable and
\* else the identifier randomUUID has just produced; and the head written
\* to the head collection, and the one written to the base collection, have
\* that id as id and as metaIndexed.id.
C24_BusinessId ==
  /\ Uploaded =>
       /\ storage[Key] = [exists |-> TRUE, content |-> payload]
       /\ ~Unusable(payload.id)
       /\ IF Unusable(record.id)
          THEN payload.id = Uuid(uuids) /\ uuids = 1
          ELSE payload.id = record.id /\ uuids = 0
  /\ (pc = "replaceBase" \/ result = "idHex") =>
       /\ heads[record._id].id = payload.id
       /\ heads[record._id].meta.id = payload.id
  /\ result = "idHex" =>
       /\ base[record._id].id = payload.id
       /\ base[record._id].meta.id = payload.id

\* C24 witness: migrateDocument returned for a record whose id was a string
\* of two blanks, and the head has an identifier of randomUUID.
C24_Witness ==
  /\ pc = "done"
  /\ result = "idHex"
  /\ record.id = Str(<<" ", " ">>)
  /\ heads[record._id].id = Uuid(1)
  /\ storage[Key].content.id = Uuid(1)

\* The calls that upload, count or write.
XWrites == {"putJSON", "incCv", "replaceHead", "replaceBase"}

\* C21 (resume skip): with resume, migrateDocument returns null for a record
\* whose head in the head collection has a storage key, after the findOne
\* alone: no upload, no increment of the counter, no write to the head
\* collection or the base collection; for any other record it goes on to the
\* upload, unless the findOne rejected; and a record it has returned null
\* for has such a head.
C21_ResumeSkip ==
  /\ []((resume /\ result = "null") =>
          /\ HasStorageKey(heads[record._id])
          /\ \A i \in DOMAIN xlog : xlog[i].op \notin XWrites)
  /\ [][(resume /\ pc = "migrateDocument") =>
          IF HasStorageKey(heads[record._id])
          THEN \/ /\ result' = "null"
                  /\ UNCHANGED <<targetVars, uuids>>
               \/ error' # NoError
          ELSE \/ pc' = "putJSON"
               \/ error' # NoError]_vars

\* The second run was started with resume after a first run that completed.
SecondResumeRun ==
  /\ resume
  /\ \E i \in DOMAIN xlog : xlog[i].op = "again" /\ xlog[i].ok

\* The calls of the second run.
SecondRunCalls ==
  {j \in DOMAIN xlog :
     \E i \in DOMAIN xlog : xlog[i].op = "again" /\ i < j}

\* C22 (externalization idempotence): in a run with resume that follows a
\* completed migration of the collection, no call uploads, increments the
\* counter or writes a head, every migrateDocument returns null, and the
\* source collection, the heads, the base collection, the bucket and the
\* counter stay as the first run left them.
C22_Idempotent ==
  /\ [](SecondResumeRun =>
          /\ \A j \in SecondRunCalls : xlog[j].op \notin XWrites
          /\ result \in {"", "null"}
          /\ migrated = 0)
  /\ [][SecondResumeRun => UNCHANGED <<targetVars, uuids>>]_vars

\* A second run with resume has gone through two records with a head and
\* has ended.
C22_Witness ==
  /\ SecondResumeRun
  /\ pc = "done"
  /\ error = NoError
  /\ Cardinality({j \in SecondRunCalls : xlog[j].op = "findOne"}) >= 2
  /\ \A i \in 1 .. 2 : HasStorageKey(heads[i])

\* C23 (heads point to uploads): in every state, also after a rejected call
\* and in a second run, a document with a storage key in the head
\* collection or the base collection has the key of its record, an object
\* is in the bucket at that key, and a putJSON of the record has resolved.
C23_HeadsPointToUploads ==
  \A i \in RecordIds : \A doc \in {heads[i], base[i]} :
     HasStorageKey(doc) =>
       /\ doc.system.key = JsonKey(XCollection, i, 0)
       /\ storage[doc.system.key].exists
       /\ \E j \in DOMAIN xlog :
            xlog[j] = [op |-> "putJSON", id |-> i, ok |-> TRUE]

\* A run was stopped by a rejected call after it had written a head.
C23_Witness ==
  /\ pc = "thrown"
  /\ \E i \in RecordIds : HasStorageKey(heads[i]) /\ ~HasStorageKey(base[i])
  /\ \E j \in DOMAIN xlog : xlog[j].op = "putJSON" /\ ~xlog[j].ok

\* The calls of the run that is going on.
ThisRun ==
  IF StartedAgain THEN SecondRunCalls ELSE DOMAIN xlog

IncCvCalls == {j \in DOMAIN xlog : xlog[j].op = "incCv"}

\* C25 (change version): incCv is called only right after the upload of the
\* same record has resolved, and every resolved upload is followed by the
\* incCv of its record, so a record that was skipped has none and a record
\* that was uploaded has one; the counter has advanced once for every incCv
\* that resolved, and at most once for one that was rejected; and of two
\* heads written by the same run the one written later has the greater cv.
C25_ChangeVersion ==
  /\ \A j \in IncCvCalls :
       /\ j > 1
       /\ xlog[j - 1] = [op |-> "putJSON", id |-> xlog[j].id, ok |-> TRUE]
  /\ \A j \in DOMAIN xlog :
       (xlog[j].op = "putJSON" /\ xlog[j].ok) =>
         IF j = Len(xlog)
         THEN pc = "incCv"
         ELSE xlog[j + 1].op = "incCv" /\ xlog[j + 1].id = xlog[j].id
  /\ Cardinality({j \in IncCvCalls : xlog[j].ok}) <= counter
  /\ counter <= Cardinality(IncCvCalls)
  /\ \A a, b \in ThisRun :
       (/\ a < b
        /\ xlog[a].op = "replaceHead" /\ xlog[a].ok
        /\ xlog[b].op = "replaceHead" /\ xlog[b].ok) =>
         heads[xlog[a].id].system.cv < heads[xlog[b].id].system.cv

\* A run without resume has written the heads of two records, after a
\* first run that had written them too.
C25_Witness ==
  /\ StartedAgain
  /\ ~resume
  /\ pc = "done"
  /\ Cardinality({j \in ThisRun : xlog[j].op = "replaceHead" /\ xlog[j].ok})
       >= 2
  /\ Cardinality({j \in DOMAIN xlog \ ThisRun :
                    xlog[j].op = "replaceHead" /\ xlog[j].ok}) >= 2
  /\ \E j \in DOMAIN xlog : xlog[j].op = "findOne" /\ xlog[j].ok

\* The heads with a storage pointer, and those of them whose object is not
\* in the bucket.
Pointing == {i \in RecordIds : HasStorageKey(heads[i])}

Missing == {i \in Pointing : ~storage[heads[i].system.key].exists}

\* C26 (validation is advisory): a getJSON that finds no object, or that
\* rejects, is counted in failures and the loop goes on with no error
\* raised; and no step of validateCollection changes the source collection,
\* the head collection, the base collection, the bucket or the counter.
C26_ValidationAdvisory ==
  /\ [][pc = "getJSON" =>
          /\ error' = NoError
          /\ pc' = "vHasNext"
          /\ \/ /\ Readable(record)
                /\ validated' = validated + 1
                /\ failures' = failures
             \/ /\ validated' = validated
                /\ failures' = Append(failures, record._id)
          /\ ~Readable(record) => failures' = Append(failures, record._id)]_vars
  /\ [][UNCHANGED targetVars]_vars
  /\ [](report.kind = "failures" => (pc = "done" /\ error = NoError))

\* The pass has ended after an object that was missing and a read that was
\* rejected.
C26_Witness ==
  /\ pc = "done"
  /\ report.kind = "failures"
  /\ \E j \in DOMAIN xlog :
       xlog[j].op = "getJSON" /\ ~xlog[j].ok /\ xlog[j].id \in Missing
  /\ \E j \in DOMAIN xlog :
       xlog[j].op = "getJSON" /\ ~xlog[j].ok /\ xlog[j].id \notin Missing

\* Every read of the pass that was made on an object of the bucket has
\* resolved.
NoReadRejected ==
  \A j \in DOMAIN xlog :
    (xlog[j].op = "getJSON" /\ ~xlog[j].ok) => xlog[j].id \in Missing

\* The pass has ended on heads of which exactly one has lost its object.
OneMissingAtEnd ==
  /\ pc = "done"
  /\ report.kind # "none"
  /\ Cardinality(Missing) = 1
  /\ NoReadRejected

\* C27 as stated (validation soundness): with exactly one object deleted
\* out of band, the pass reports that document as its one failure and
\* reports a passed count of the heads with a storage pointer minus one.
C27_PassedCountReported ==
  OneMissingAtEnd =>
    /\ \A i \in Missing : failures = <<i>>
    /\ report.passed = Cardinality(Pointing) - 1

\* C27 (validation soundness): with exactly one object deleted out of band
\* and every other object read, the pass has that document as its one
\* failure and has counted the heads with a storage pointer minus one as
\* read, and its last line gives the number of failures, 1, and no passed
\* count.
C27_OneFailureReported ==
  OneMissingAtEnd =>
    /\ \A i \in Missing : failures = <<i>>
    /\ validated = Cardinality(Pointing) - 1
    /\ report = [kind |-> "failures", count |-> 1, passed |-> -1]

\* The pass has ended on two heads with a pointer or more, of which one has
\* lost its object.
C27_Witness ==
  /\ OneMissingAtEnd
  /\ Cardinality(Pointing) >= 2
  /\ validated >= 1

\* C28 (checksum errors): when the pass has ended, every head whose object
\* is in the bucket with a content that does not have the checksum and the
\* size of the storage pointer is among the failures.
C28_ChecksumErrorsDetected ==
  (pc = "done" /\ report.kind # "none") =>
    \A i \in Pointing :
      (Readable(heads[i]) /\ ~ReadableAndIntact(heads[i])) =>
        \E k \in DOMAIN failures : failures[k] = i

\* C29 (the --xronox flag): started with --xronox the command does not run
\* the standard copy: it selects no databases to copy, opens no destination
\* and makes no call of the copy engine; started without it, it makes no
\* call of the externalization.
C29_XronoxFlag ==
  /\ "--xronox" \in args =>
       /\ selectedDatabases = <<>>
       /\ conn.destination = "none"
       /\ calls = <<>>
       /\ destOps = {}
  /\ "--xronox" \notin args => xlog = <<>>

\* The batch holds no _id the destination collection held before the call.
ConflictFree ==
  Ids(Range(documents)) \cap Ids(dest0[dbName][collectionName].docs) = {}

\* C31 (duplicate keys after a network fault): when the first insertMany of
\* a batch that conflicts with nothing in the destination was reported as
\* failed by a network fault, the duplicate key errors of the attempts that
\* follow do not fail the batch: insertBatch does not throw a duplicate key
\* error, and when it has returned the destination holds every document of
\* the batch.
C31_DuplicatesAcceptable ==
  (/\ ConflictFree
   /\ bulkLog # <<>>
   /\ bulkLog[1].outcome = "network") =>
    /\ ~(pc = "thrown" /\ error = DuplicateKey)
    /\ pc = "done" => Range(documents) \subseteq DestDocs

\* The insertOne calls made for document d of the batch.
DocCalls(d) == {i \in DOMAIN singleLog : singleLog[i].doc = d}

\* C36 (the write path terminates): for a batch of n documents and any
\* faults, insertMany is called at most MAX_RETRIES times, with attempt
\* never above MAX_RETRIES, insertOne at most MAX_RETRIES times for each
\* document, so at most 7 + 7n writes are sent; a ping, whether it resolves
\* or rejects, is followed by the next insertMany with attempt one higher
\* and sends no write; and insertBatch returns or throws in the end.
C36_Terminates ==
  /\ [](/\ Len(bulkLog) <= MAX_RETRIES
        /\ attempt <= MAX_RETRIES
        /\ Len(bulkLog) \in {attempt - 1, attempt}
        /\ \A d \in DOMAIN documents : Cardinality(DocCalls(d)) <= MAX_RETRIES
        /\ Len(bulkLog) + Len(singleLog)
             <= MAX_RETRIES + MAX_RETRIES * Len(documents))
  /\ [][pc = "ping" =>
          /\ pc' = "insertMany"
          /\ attempt' = attempt + 1
          /\ UNCHANGED <<dest, bulkLog, singleLog, batchDelays, error>>]_vars
  /\ <>(pc \in {"done", "thrown"})

\* insertBatch has thrown after seven insertMany and seven insertOne of the
\* second document of the batch, and a ping had failed on the way.
C36_Witness ==
  /\ pc = "thrown"
  /\ Len(bulkLog) = MAX_RETRIES
  /\ Len(documents) = 2
  /\ Cardinality(DocCalls(2)) = MAX_RETRIES
  /\ \E i \in DOMAIN calls : calls[i].op = "ping" /\ ~calls[i].ok

\* createCollection was called for collection c of database d.
CreationTried(d, c) ==
  \E i \in DOMAIN calls :
    calls[i].op = "createCollection" /\ calls[i].db = d /\ calls[i].coll = c

\* C35 (collection creation falls back): a createCollection that rejects
\* does not make cloneDatabases throw, and when cloneDatabases has returned
\* without throwing, every source collection it tried to create, also one
\* without documents, exists at the destination.
C35_CreatedAnyway ==
  /\ [][pc = "createCollection" => (pc' = "count" /\ error' = NoError)]_vars
  /\ []((pc = "done" /\ error = NoError) =>
          \A d \in Range(databases) : \A c \in CollNames :
            (source[d][c].exists /\ CreationTried(d, c)) =>
              dest[d][c].exists)

\* C32 (uploads are idempotent): an upload for a record that has a head
\* with a storage key leaves at the key of the record an object of the
\* content that was there.
C32_SameContent ==
  [][(pc = "putJSON" /\ HasStorageKey(heads[record._id])) =>
       storage'[Key].content = storage[Key].content]_vars

\* The second run was started with resume after a first run that a
\* rejected call had stopped.
ResumedAfterInterruption ==
  /\ resume
  /\ \E i \in DOMAIN xlog : xlog[i].op = "again" /\ ~xlog[i].ok

\* C33 (resume convergence): when a run with resume that follows an
\* interrupted run has returned, every record of the collection has a head
\* with a storage key in the head collection, and the base collection holds
\* that head in the place of the record.
C33_ResumeConverges ==
  (ResumedAfterInterruption /\ pc = "done" /\ error = NoError) =>
    \A i \in RecordIds :
      sourceColl[i].exists =>
        /\ HasStorageKey(heads[i])
        /\ base[i] = heads[i]

\* The putJSON calls made for the record migrateDocument is at.
UploadsTried ==
  {j \in DOMAIN xlog : xlog[j].op = "putJSON" /\ xlog[j].id = record._id}

\* C34 (uploads are retried): when migrateDocument has thrown what putJSON
\* rejected with, it had called putJSON for the record more than once.
C34_UploadRetried ==
  (/\ pc = "thrown"
   /\ xlog # <<>>
   /\ xlog[Len(xlog)].op = "putJSON") =>
    Cardinality(UploadsTried) >= 2

====
